---- MODULE Spec2Model ----
(***************************************************************************)
(* Model of the VARK scoring core of 4-cornerstones-learning:              *)
(* calculateVARKScores and interpretVARKResults (utils/varkCalculator,     *)
(* kept in src/client/src/components/DirectApiTest.jsx, lines 40-224).     *)
(*                                                                         *)
(* Weights are modelled as non-negative integers (one unit = weight 1.0).  *)
(* The quotient (raw / total) * 100 is computed in exact arithmetic; for   *)
(* integer weights the IEEE-754 double the code computes rounds to the     *)
(* same integer whenever total < 40 (the first difference is 23/40, where  *)
(* the double is 57.49999999999999), and every total of this model is      *)
(* below that.                                                             *)
(***************************************************************************)
EXTENDS Integers, Sequences, FiniteSets, TLC

(* ---- bounds of the model ---------------------------------------------- *)
MaxLen == 4
MaxWeight == 3

(* ---- the four style tags, in the key order of rawScores (lines 54-59) -- *)
StyleOrder == <<"visual", "auditory", "reading_writing", "kinesthetic">>

Styles == {StyleOrder[i] : i \in 1..Len(StyleOrder)}

(* a tag that rawScores does not own, e.g. a misspelt style constant *)
UnrecognizedTag == "tactile"

Tags == Styles \cup {UnrecognizedTag}

(* default of the destructuring `domainWeight = 1.0` (line 63) *)
DefaultWeight == 1

(* the equal share returned when nothing was counted (line 91) *)
EqualShare == 25

(* weights a response states explicitly: a zero weight and the heaviest *)
(* domain's weight; the weight 1.0 is the one written by the default    *)
ExplicitWeights == {0, MaxWeight}

(* a response record; domainWeight may be absent. The weight of a response *)
(* with an unrecognized tag is never added, so that one comes without it  *)
ResponseKinds ==
  {[selectedStyle |-> t] : t \in Tags}
  \cup {[selectedStyle |-> t, domainWeight |-> w] : t \in Styles, w \in ExplicitWeights}

ResponseSeqs == UNION {[1..n -> ResponseKinds] : n \in 0..MaxLen}

(* ---- calculateVARKScores, piece by piece ------------------------------- *)

(* lines 54-59 *)
InitialRawScores == [s \in Styles |-> 0]

(* mutant: `domainWeight || 1.0`, a zero weight falls back to the default *)
DomainWeightOfFalsy(response) ==
  IF "domainWeight" \in DOMAIN response /\ response.domainWeight # 0
  THEN response.domainWeight ELSE DefaultWeight

(* mutant: `domainWeight = 0`, an absent weight counts nothing *)
DomainWeightOfZeroDefault(response) ==
  IF "domainWeight" \in DOMAIN response THEN response.domainWeight ELSE 0

(* line 63: const { selectedStyle, domainWeight = 1.0 } = response *)
DomainWeightOf(response) ==
  IF "domainWeight" \in DOMAIN response THEN response.domainWeight ELSE DefaultWeight

(* line 64: selectedStyle && rawScores.hasOwnProperty(selectedStyle) *)
IsCounted(response) == response.selectedStyle \in Styles

(* mutant: an unrecognized tag is booked on the first style instead of skipped *)
AddResponseFallback(raw, response) ==
  LET key == IF IsCounted(response) THEN response.selectedStyle ELSE StyleOrder[1]
  IN [raw EXCEPT ![key] = @ + DomainWeightOf(response)]

(* lines 62-67, the body of the forEach callback *)
AddResponse(raw, response) ==
  IF IsCounted(response)
  THEN [raw EXCEPT ![response.selectedStyle] = @ + DomainWeightOf(response)]
  ELSE raw

RECURSIVE ForEachResponse(_, _, _)
(* lines 62-67: fold of AddResponse over responses[i..] *)
ForEachResponse(raw, rs, i) ==
  IF i > Len(rs) THEN raw
  ELSE ForEachResponse(AddResponse(raw, rs[i]), rs, i + 1)

RECURSIVE SumValues(_, _)
(* Object.values(obj).reduce((a, b) => a + b, 0), lines 70 and 80 *)
SumValues(obj, i) ==
  IF i > Len(StyleOrder) THEN 0
  ELSE obj[StyleOrder[i]] + SumValues(obj, i + 1)

(* mutant: Math.floor instead of Math.round *)
MathFloor(num, den) == num \div den

(* mutant: halves round down *)
MathRoundHalfDown(num, den) == (2 * num + den - 1) \div (2 * den)

(* Math.round(num / den) for num >= 0, den > 0: halves round up *)
MathRound(num, den) == (2 * num + den) \div (2 * den)

(* lines 75-77 *)
RoundedPercentages(raw, total) ==
  [s \in Styles |-> MathRound(100 * raw[s], total)]

RECURSIVE ReduceKeys(_, _, _)
(* lines 83-85: Object.keys(p).reduce((a, b) => p[a] > p[b] ? a : b) *)
ReduceKeys(p, a, i) ==
  IF i > Len(StyleOrder) THEN a
  ELSE ReduceKeys(p, IF p[a] > p[StyleOrder[i]] THEN a ELSE StyleOrder[i], i + 1)

RECURSIVE ReduceKeysGeq(_, _, _)
ReduceKeysGeq(p, a, i) ==
  IF i > Len(StyleOrder) THEN a
  ELSE ReduceKeysGeq(p, IF p[a] >= p[StyleOrder[i]] THEN a ELSE StyleOrder[i], i + 1)

(* mutant: p[a] >= p[b] ? a : b, the first of tied styles wins *)
DominantKeyFirstOnTie(p) == ReduceKeysGeq(p, StyleOrder[1], 2)

(* lines 83-85 *)
DominantKey(p) == ReduceKeys(p, StyleOrder[1], 2)

(* mutant: the correction step is missing *)
EnsureSum100Skipped(p) == p

(* lines 80-87 *)
EnsureSum100(p) ==
  LET sum == SumValues(p, 1) IN
  IF sum # 100
  THEN [p EXCEPT ![DominantKey(p)] = @ + (100 - sum)]
  ELSE p

(* mutant: the else arm leaves the zero percentages *)
EqualDistributionZero == [s \in Styles |-> 0]

(* lines 90-92 *)
EqualDistribution == [s \in Styles |-> EqualShare]

(* lines 52-96, the whole function *)
CalculateVARKScores(rs) ==
  LET raw == ForEachResponse(InitialRawScores, rs, 1)
      total == SumValues(raw, 1)
  IN IF total > 0
     THEN EnsureSum100(RoundedPercentages(raw, total))
     ELSE EqualDistribution

(* ---- interpretVARKResults ---------------------------------------------- *)

(* a JavaScript value that may be null *)
Null == [isNull |-> TRUE]

Some(v) == [isNull |-> FALSE, value |-> v]

(* lines 117-122 *)
styleNames ==
  [s \in Styles |->
     CASE s = "visual" -> "Visual"
       [] s = "auditory" -> "Auditory"
       [] s = "reading_writing" -> "Reading/Writing"
       [] s = "kinesthetic" -> "Kinesthetic"]

(* lines 124-133 *)
styleDescriptions ==
  [s \in Styles |->
     CASE s = "visual" -> "You learn best through images, diagrams, charts, and visual demonstrations. Seeing information helps you understand and remember it."
       [] s = "auditory" -> "You learn best through listening, discussions, and verbal explanations. Hearing information and talking about it helps solidify your understanding."
       [] s = "reading_writing" -> "You learn best through reading and writing. Taking detailed notes, reading textbooks, and expressing ideas in writing are your strengths."
       [] s = "kinesthetic" -> "You learn best through hands-on experiences, practical activities, and real-world applications. Doing and experiencing helps you learn."]

(* Object.entries(scores): the [style, percentage] pairs in key order *)
Entries(sc) ==
  [i \in 1..Len(StyleOrder) |-> [style |-> StyleOrder[i], percentage |-> sc[StyleOrder[i]]]]

(* mutant: a - b, ascending *)
CompareAsc(a, b) == a.percentage - b.percentage

(* the comparator ([, a], [, b]) => b - a of line 137, applied to (a, b) *)
CompareDesc(a, b) == b.percentage - a.percentage

RECURSIVE InsertStable(_, _)
(* one insertion of the stable sort: e goes behind every entry that the *)
(* comparator does not order after it                                    *)
InsertStable(sorted, e) ==
  IF sorted = <<>> THEN <<e>>
  ELSE IF CompareDesc(Head(sorted), e) <= 0
       THEN <<Head(sorted)>> \o InsertStable(Tail(sorted), e)
       ELSE <<e>> \o sorted

RECURSIVE StableSort(_, _, _)
(* Array.prototype.sort (stable) with CompareDesc, line 137 *)
StableSort(sorted, entries, i) ==
  IF i > Len(entries) THEN sorted
  ELSE StableSort(InsertStable(sorted, entries[i]), entries, i + 1)

(* lines 136-142 *)
SortedStyles(sc) ==
  LET byPct == StableSort(<<>>, Entries(sc), 1) IN
  [i \in 1..Len(byPct) |->
     [style |-> byPct[i].style,
      name |-> styleNames[byPct[i].style],
      percentage |-> byPct[i].percentage]]

(* the significance threshold of lines 145 and 148 *)
MultimodalThreshold == 25

(* lines 152-157 and 159-164 *)
WithDescription(e) ==
  [style |-> e.style, name |-> e.name, percentage |-> e.percentage,
   description |-> styleDescriptions[e.style]]

RECURSIVE JoinNames(_, _)
(* multimodalStyles.map((s) => s.name).join(' and '), as a list of pieces *)
JoinNames(list, i) ==
  IF i > Len(list) THEN <<>>
  ELSE IF i = Len(list) THEN <<list[i].name>>
       ELSE <<list[i].name, " and ">> \o JoinNames(list, i + 1)

(* mutant: sortedStyles[1].percentage > 25 *)
SecondaryOfStrict(sortedStyles) ==
  IF sortedStyles[2].percentage > MultimodalThreshold
  THEN Some(sortedStyles[2]) ELSE Null

(* line 145 *)
SecondaryOf(sortedStyles) ==
  IF sortedStyles[2].percentage >= MultimodalThreshold
  THEN Some(sortedStyles[2]) ELSE Null

(* mutant: filter((s) => s.percentage > 25) *)
MultimodalStylesOfStrict(sortedStyles) ==
  SelectSeq(sortedStyles, LAMBDA s : s.percentage > MultimodalThreshold)

(* line 148 *)
MultimodalStylesOf(sortedStyles) ==
  SelectSeq(sortedStyles, LAMBDA s : s.percentage >= MultimodalThreshold)

(* mutant: multimodalStyles.length > 2 *)
IsMultimodalOfThree(multimodalStyles) == Len(multimodalStyles) > 2

(* mutant: multimodalStyles.length > 0 *)
IsMultimodalOfAny(multimodalStyles) == Len(multimodalStyles) > 0

(* line 149 *)
IsMultimodalOf(multimodalStyles) == Len(multimodalStyles) > 1

(* mutant: the unimodal sentence stops after the style's name *)
SummaryOfNoDescription(isMultimodal, multimodalStyles, dominant) ==
  IF isMultimodal
  THEN <<"You're a multimodal learner with strengths in ">>
       \o JoinNames(multimodalStyles, 1)
       \o <<". This means you can adapt your learning approach based on the material and situation.">>
  ELSE <<"You're primarily a ", dominant.name, " learner. ">>

(* lines 169-171; the template strings are kept as lists of their pieces *)
SummaryOf(isMultimodal, multimodalStyles, dominant) ==
  IF isMultimodal
  THEN <<"You're a multimodal learner with strengths in ">>
       \o JoinNames(multimodalStyles, 1)
       \o <<". This means you can adapt your learning approach based on the material and situation.">>
  ELSE <<"You're primarily a ", dominant.name, " learner. ",
         styleDescriptions[dominant.style]>>

(* lines 116-173 *)
InterpretVARKResults(sc) ==
  LET sortedStyles == SortedStyles(sc)
      dominant == sortedStyles[1]
      secondary == SecondaryOf(sortedStyles)
      multimodalStyles == MultimodalStylesOf(sortedStyles)
      isMultimodal == IsMultimodalOf(multimodalStyles)
  IN [dominant |-> WithDescription(dominant),
      secondary |-> IF secondary.isNull THEN Null
                    ELSE Some(WithDescription(secondary.value)),
      isMultimodal |-> isMultimodal,
      multimodalStyles |-> IF isMultimodal THEN Some(multimodalStyles) ELSE Null,
      allScores |-> sortedStyles,
      interpretation |-> SummaryOf(isMultimodal, multimodalStyles, dominant)]

(* ---- state -------------------------------------------------------------- *)
VARIABLES
  responses,        \* the argument of calculateVARKScores
  pc,               \* "idle" before the first call returns, "done" after a return
  rawScores,        \* local rawScores after the forEach (lines 54-67)
  totalScore,       \* local totalScore (line 70)
  branch,           \* which arm of `if (totalScore > 0)` ran: "normalize" or "default"
  roundedScores,    \* percentageScores as it stands at line 80, before the correction
  sum,              \* local sum (line 80)
  adjusted,         \* line 86 was executed
  dominantStyle,    \* local dominantStyle (line 83), meaningful when adjusted
  scores,           \* the vector returned (line 95), the argument of interpretVARKResults
  hasPrev,          \* an earlier call on the same argument has returned
  prevScores,       \* what that earlier call returned
  interpreted,      \* interpretVARKResults(scores) has returned
  interpretation,   \* its return value
  hasPrevInterp,    \* an earlier interpretVARKResults(scores) has returned too
  prevInterpretation \* what that earlier call returned

interpVars == <<interpreted, interpretation, hasPrevInterp, prevInterpretation>>

VARIABLES
  dashProfile,      \* StudentDashboard: state `profile` (null until loadProfile returns)
  dashDominant,     \* StudentDashboard: dominantStyle = getDominantStyle() of the last render
  assigned          \* what getMyAssignedMaterials last returned (null before)

downstreamVars == <<dashProfile, dashDominant, assigned>>

VARIABLES
  invInput,         \* per assessment session: the responses its scorer call was given
  invPc,            \* per session: "start", "fold", "scored" or "done"
  invPos,           \* per session: index of the next response of the forEach
  heap,             \* the rawScores objects allocated by the running calls
  invScores,        \* per session: what calculateVARKScores returned
  invInterp,        \* per session: what interpretVARKResults returned (null before)
  overlapped        \* some call ran a step while the other session's call was under way

sessionVars == <<invInput, invPc, invPos, heap, invScores, invInterp, overlapped>>

VARIABLES
  currentDomainIndex,   \* VarkAssessment state (part_003 line 8)
  currentQuestionIndex, \* line 9
  vaResponses,          \* state `responses` of VarkAssessment (line 10)
  showResults,          \* line 11
  results,              \* line 12: null or {scores, interpretation}
  showDomainIntro,      \* line 13
  prevRender,           \* the state an earlier render's handleAnswer closed over (null: none)
  lastCall              \* the last handleAnswer call: where it answered, what it gave the scorer

assessVars == <<currentDomainIndex, currentQuestionIndex, vaResponses, showResults,
                results, showDomainIntro, prevRender, lastCall>>

VARIABLES
  mounted,           \* the effect of App.jsx lines 16-76 has run
  step,              \* App state, line 13
  session,           \* App state, line 12
  appProfile,        \* App state `profile`, line 14
  localToken,        \* localStorage['supabase.auth.token']
  libSession,        \* the session the Supabase client holds
  loadingTimeout,    \* the timer of line 18 is armed
  getSessionPending, \* the promise of line 51 is unsettled
  subscribed,        \* the listener of line 66 is registered
  pendingChecks,     \* checkUserProfile calls awaiting line 80
  dbRow,             \* the user's row of table profiles
  updatesIssued,     \* every update request sent to table profiles, in order
  updatePending,     \* the requests of updatesIssued awaiting line 121
  lastComplete,      \* the last handleAssessmentComplete call (null: none)
  checkOutcome       \* how the last checkUserProfile call ended (null: none yet)

appVars == <<mounted, step, session, appProfile, localToken, libSession, loadingTimeout,
             getSessionPending, subscribed, pendingChecks, dbRow, updatesIssued,
             updatePending, lastComplete, checkOutcome>>

VARIABLES
  likeRows,    \* table reply_likes
  likeNextId,  \* the id the store gives the next reply_likes row
  likeCall,    \* the toggleReplyLike call under way (null: none)
  likeLast,    \* the last toggleReplyLike call that returned (null: none)
  likePrev     \* the one that returned before it

likeVars == <<likeRows, likeNextId, likeCall, likeLast, likePrev>>

VARIABLES
  groupRow,     \* the row of table study_groups (null: no group yet)
  memberships,  \* the group's rows of table group_memberships
  joinAt,       \* per user: where the user's joinStudyGroup call stands
  joinResult    \* per user: how the user's last joinStudyGroup call ended

groupVars == <<groupRow, memberships, joinAt, joinResult>>

VARIABLES
  quizQuestions,   \* table quiz_questions
  quizTotalPoints, \* column total_points of table quizzes, per quiz
  quizNextId       \* the id the store gives the next quiz_questions row

quizVars == <<quizQuestions, quizTotalPoints, quizNextId>>

VARIABLES
  currentStyle,      \* ContentEngine state, line 10
  generatedContent,  \* line 11
  isLoading,         \* line 12
  outstanding,       \* the transform requests of line 27 not yet settled
  nextRequest        \* the number of the next transform request

engineVars == <<currentStyle, generatedContent, isLoading, outstanding, nextRequest>>

VARIABLES
  completions,       \* table material_completions
  completionNextId,  \* the id the store gives the next material_completions row
  wallClock          \* the time new Date() reads in part_006

completionVars == <<completions, completionNextId, wallClock>>

VARIABLES
  orderResponses,  \* the response sequence handed to calculateVARKScores
  orderReturned    \* what its last call returned, Null before the first

orderVars == <<orderResponses, orderReturned>>

(* state of the service modules *)
serviceVars == <<likeVars, groupVars, quizVars, engineVars, completionVars, orderVars>>

(* state of the components declared after the dashboard *)
laterVars == <<sessionVars, assessVars, appVars, serviceVars>>

(* state of the other components, which the scorer and the interpreter *)
(* do not touch                                                        *)
restVars == <<downstreamVars, laterVars>>

coreVars == <<responses, pc, rawScores, totalScore, branch, roundedScores, sum,
              adjusted, dominantStyle, scores, hasPrev, prevScores, interpVars>>

vars == <<responses, pc, rawScores, totalScore, branch, roundedScores, sum,
          adjusted, dominantStyle, scores, hasPrev, prevScores, interpVars, restVars>>

scorerVars == <<responses, pc, rawScores, totalScore, branch, roundedScores, sum,
                adjusted, dominantStyle, hasPrev, prevScores>>

(* state of the React client: scorer, interpreter, dashboards, assessment, App *)
clientVars == <<coreVars, downstreamVars, sessionVars, assessVars, appVars>>

(* what toggleReplyLike leaves alone *)
notLikeVars == <<clientVars, groupVars, quizVars, engineVars, completionVars, orderVars>>

(* what joinStudyGroup leaves alone *)
notGroupVars == <<clientVars, likeVars, quizVars, engineVars, completionVars, orderVars>>

(* what the quiz question functions leaves alone *)
notQuizVars == <<clientVars, likeVars, groupVars, engineVars, completionVars, orderVars>>

(* what ContentEngine leaves alone *)
notEngineVars == <<clientVars, likeVars, groupVars, quizVars, completionVars, orderVars>>

(* what updateMaterialCompletion leaves alone *)
notCompletionVars == <<clientVars, likeVars, groupVars, quizVars, engineVars, orderVars>>

(* what the scorer on binary64 weights leaves alone *)
notOrderVars == <<clientVars, likeVars, groupVars, quizVars, engineVars, completionVars>>

(* placeholder of a variable that holds no vector yet *)
NoScores == [s \in Styles |-> 0]

NotInterpreted ==
  /\ interpreted = FALSE
  /\ interpretation = InterpretVARKResults(NoScores)
  /\ hasPrevInterp = FALSE
  /\ prevInterpretation = InterpretVARKResults(NoScores)

DownstreamIdle ==
  /\ dashProfile = Null
  /\ dashDominant = Null
  /\ assigned = Null

(* two independent assessment sessions *)
Sessions == {"s1", "s2"}

SessionsIdle ==
  /\ invInput = [k \in Sessions |-> <<>>]
  /\ invPc = [k \in Sessions |-> "done"]
  /\ invPos = [k \in Sessions |-> 1]
  /\ heap = [k \in Sessions |-> NoScores]
  /\ invScores = [k \in Sessions |-> NoScores]
  /\ invInterp = [k \in Sessions |-> Null]
  /\ overlapped = FALSE

(* VarkAssessment as mounted: lines 8-13, and the effect of lines 32-39 *)
AssessmentMounted ==
  /\ currentDomainIndex = 0
  /\ currentQuestionIndex = 0
  /\ vaResponses = <<>>
  /\ showResults = FALSE
  /\ results = Null
  /\ showDomainIntro = TRUE
  /\ prevRender = Null
  /\ lastCall = Null

(* a page before App's effect runs: lines 12-14 *)
PageLoaded ==
  /\ mounted = FALSE
  /\ step = "loading"
  /\ session = Null
  /\ appProfile = Null
  /\ loadingTimeout = FALSE
  /\ getSessionPending = FALSE
  /\ subscribed = FALSE
  /\ pendingChecks = 0
  /\ updatesIssued = <<>>
  /\ updatePending = {}
  /\ lastComplete = Null
  /\ checkOutcome = Null

(* App with nothing stored and no account *)
AppIdle ==
  /\ PageLoaded
  /\ localToken = Null
  /\ libSession = Null
  /\ dbRow = Null

(* table reply_likes empty, no call under way *)
LikesIdle ==
  /\ likeRows = {}
  /\ likeNextId = 1
  /\ likeCall = Null
  /\ likeLast = Null
  /\ likePrev = Null

GroupUsers == {"u1", "u2", "u3"}

(* no study group yet, nobody joining *)
GroupsIdle ==
  /\ groupRow = Null
  /\ memberships = {}
  /\ joinAt = [u \in GroupUsers |-> "idle"]
  /\ joinResult = [u \in GroupUsers |-> "none"]

Quizzes == {"quiz1", "quiz2"}

(* two quizzes as createQuiz leaves them (part_004 line 101), no question *)
QuizzesIdle ==
  /\ quizQuestions = {}
  /\ quizTotalPoints = [z \in Quizzes |-> 0]
  /\ quizNextId = 1

(* ContentEngine before its effect runs: lines 10-12, no initialStyle given; *)
(* a text is kept as the list of its pieces, the empty string as <<>>        *)
EngineMounted ==
  /\ currentStyle = "Visual"
  /\ generatedContent = <<>>
  /\ isLoading = FALSE
  /\ outstanding = {}
  /\ nextRequest = 1

(* no completion record yet *)
CompletionsIdle ==
  /\ completions = {}
  /\ completionNextId = 1
  /\ wallClock = 1

(* no response collected, the scorer not called *)
OrderIdle ==
  /\ orderResponses = <<>>
  /\ orderReturned = Null

(* the service modules before their first call *)
ServicesIdle ==
  /\ LikesIdle
  /\ GroupsIdle
  /\ QuizzesIdle
  /\ EngineMounted
  /\ CompletionsIdle
  /\ OrderIdle

(* the other components before they start *)
RestIdle ==
  /\ DownstreamIdle
  /\ SessionsIdle
  /\ AssessmentMounted
  /\ AppIdle
  /\ ServicesIdle

Init ==
  /\ responses \in ResponseSeqs
  /\ pc = "idle"
  /\ rawScores = NoScores
  /\ totalScore = 0
  /\ branch = "none"
  /\ roundedScores = NoScores
  /\ sum = 0
  /\ adjusted = FALSE
  /\ dominantStyle = StyleOrder[1]
  /\ scores = NoScores
  /\ hasPrev = FALSE
  /\ prevScores = NoScores
  /\ NotInterpreted
  /\ RestIdle

(* ---- calculateVARKScores(responses), one call per step ------------------ *)

(* mutant: the loop shifts the responses out of the caller's array *)
AccumulateConsuming ==
  /\ rawScores' = ForEachResponse(InitialRawScores, responses, 1)
  /\ totalScore' = SumValues(rawScores', 1)
  /\ responses' = <<>>
  /\ hasPrev' = (pc = "done")
  /\ prevScores' = IF pc = "done" THEN scores ELSE prevScores

(* lines 52-70: fresh accumulator, the forEach, totalScore; the caller's *)
(* array is only read                                                     *)
Accumulate ==
  /\ rawScores' = ForEachResponse(InitialRawScores, responses, 1)
  /\ totalScore' = SumValues(rawScores', 1)
  /\ responses' = responses
  /\ hasPrev' = (pc = "done")
  /\ prevScores' = IF pc = "done" THEN scores ELSE prevScores

(* a call that takes the totalScore > 0 arm: lines 52-87 and 95 *)
ScoreNormalized ==
  /\ pc \in {"idle", "done"}
  /\ Accumulate
  /\ totalScore' > 0
  /\ branch' = "normalize"
  /\ roundedScores' = RoundedPercentages(rawScores', totalScore')
  /\ sum' = SumValues(roundedScores', 1)
  /\ adjusted' = (sum' # 100)
  /\ dominantStyle' = IF sum' # 100 THEN DominantKey(roundedScores') ELSE StyleOrder[1]
  /\ scores' = EnsureSum100(roundedScores')
  /\ pc' = "done"
  /\ UNCHANGED <<interpVars, restVars>>

(* a call that takes the else arm: lines 52-73, 88-93 and 95 *)
ScoreDefault ==
  /\ pc \in {"idle", "done"}
  /\ Accumulate
  /\ ~(totalScore' > 0)
  /\ branch' = "default"
  /\ roundedScores' = NoScores
  /\ sum' = 0
  /\ adjusted' = FALSE
  /\ dominantStyle' = StyleOrder[1]
  /\ scores' = EqualDistribution
  /\ pc' = "done"
  /\ UNCHANGED <<interpVars, restVars>>

Next ==
  \/ ScoreNormalized
  \/ ScoreDefault

Spec == Init /\ [][Next]_vars

(* ---- interpretVARKResults(scores) --------------------------------------- *)

(* percentages a score vector is drawn from, on both sides of the threshold *)
ScoreValues == {0, 10, 15, 24, 25, 26, 35, 40, 50, 70, 100}

ScoreVectors == [Styles -> ScoreValues]

InitInterp ==
  /\ responses = <<>>
  /\ pc = "done"
  /\ rawScores = NoScores
  /\ totalScore = 0
  /\ branch = "none"
  /\ roundedScores = NoScores
  /\ sum = 0
  /\ adjusted = FALSE
  /\ dominantStyle = StyleOrder[1]
  /\ scores \in ScoreVectors
  /\ hasPrev = FALSE
  /\ prevScores = NoScores
  /\ NotInterpreted
  /\ RestIdle

(* mutant: the call writes the sorted percentages back into its argument *)
InterpretCallInPlace ==
  /\ interpretation' = InterpretVARKResults(scores)
  /\ scores' = [s \in Styles |->
                  interpretation'.allScores[CHOOSE i \in 1..Len(StyleOrder) : StyleOrder[i] = s].percentage]

(* lines 116-173: the argument is only read (Object.entries copies it *)
(* before the sort)                                                   *)
InterpretCall ==
  /\ interpretation' = InterpretVARKResults(scores)
  /\ scores' = scores

(* the first interpretVARKResults(scores) *)
Interpret ==
  /\ pc = "done"
  /\ ~interpreted
  /\ InterpretCall
  /\ interpreted' = TRUE
  /\ UNCHANGED <<hasPrevInterp, prevInterpretation>>
  /\ UNCHANGED <<scorerVars, restVars>>

(* interpretVARKResults(scores) called again on the same vector *)
InterpretAgain ==
  /\ pc = "done"
  /\ interpreted
  /\ InterpretCall
  /\ hasPrevInterp' = TRUE
  /\ prevInterpretation' = interpretation
  /\ UNCHANGED interpreted
  /\ UNCHANGED <<scorerVars, restVars>>

(* ---- readers of the persisted vector ------------------------------------- *)

(* the profile row that holds a score vector (App.jsx lines 123-129) *)
ProfileRow(sc) ==
  [vark_visual |-> sc["visual"],
   vark_auditory |-> sc["auditory"],
   vark_reading_writing |-> sc["reading_writing"],
   vark_kinesthetic |-> sc["kinesthetic"]]

(* `value || 0` on a number *)
OrZero(value) == IF value = 0 THEN 0 ELSE value

(* part_007 lines 150-155 and part_006 lines 205-210 *)
StylesOfProfile(profile) ==
  [s \in Styles |->
     CASE s = "visual" -> OrZero(profile.vark_visual)
       [] s = "auditory" -> OrZero(profile.vark_auditory)
       [] s = "reading_writing" -> OrZero(profile.vark_reading_writing)
       [] s = "kinesthetic" -> OrZero(profile.vark_kinesthetic)]

(* getDominantStyle, part_007 lines 148-160; the reduce is the one of the scorer *)
GetDominantStyle(profile) ==
  IF profile.isNull THEN Null
  ELSE LET styles == StylesOfProfile(profile.value)
           dominant == DominantKey(styles)
       IN Some([style |-> dominant, percentage |-> styles[dominant]])

(* the visible class materials of the student (rows of class_materials) *)
AssignedRows == <<[id |-> "cm1"], [id |-> "cm2"]>>

(* StudentDashboard loadProfile, part_007 lines 117-127: the row is read *)
LoadProfile ==
  /\ pc = "done"
  /\ dashProfile' = Some(ProfileRow(scores))
  /\ UNCHANGED <<dashDominant, assigned>>
  /\ UNCHANGED <<scorerVars, scores, interpVars, laterVars>>

(* a render of StudentDashboard, part_007 line 169 *)
RenderDashboard ==
  /\ pc = "done"
  /\ dashDominant' = GetDominantStyle(dashProfile)
  /\ UNCHANGED <<dashProfile, assigned>>
  /\ UNCHANGED <<scorerVars, scores, interpVars, laterVars>>

(* getMyAssignedMaterials for an authenticated student whose queries *)
(* succeed, part_006 lines 189-243                                    *)
GetMyAssignedMaterials ==
  /\ pc = "done"
  /\ LET varkScores == StylesOfProfile(ProfileRow(scores))
         dominant == DominantKey(varkScores)
     IN assigned' = Some([i \in 1..Len(AssignedRows) |->
                            [id |-> AssignedRows[i].id, preferred_style |-> dominant]])
  /\ UNCHANGED <<dashProfile, dashDominant>>
  /\ UNCHANGED <<scorerVars, scores, interpVars, laterVars>>

(* ---- scorer and interpreter calls of two sessions, step by step --------- *)

(* the longest response list of a session in this part of the model *)
MaxSessionLen == 2

SessionKinds ==
  {[selectedStyle |-> "visual"],
   [selectedStyle |-> "auditory", domainWeight |-> MaxWeight],
   [selectedStyle |-> UnrecognizedTag]}

SessionInputs == UNION {[1..n -> SessionKinds] : n \in 0..MaxSessionLen}

InitSessions ==
  /\ responses = <<>>
  /\ pc = "idle"
  /\ rawScores = NoScores
  /\ totalScore = 0
  /\ branch = "none"
  /\ roundedScores = NoScores
  /\ sum = 0
  /\ adjusted = FALSE
  /\ dominantStyle = StyleOrder[1]
  /\ scores = NoScores
  /\ hasPrev = FALSE
  /\ prevScores = NoScores
  /\ NotInterpreted
  /\ DownstreamIdle
  /\ invInput \in [Sessions -> SessionInputs]
  /\ invPc = [k \in Sessions |-> "start"]
  /\ invPos = [k \in Sessions |-> 1]
  /\ heap = [k \in Sessions |-> NoScores]
  /\ invScores = [k \in Sessions |-> NoScores]
  /\ invInterp = [k \in Sessions |-> Null]
  /\ overlapped = FALSE
  /\ AssessmentMounted
  /\ AppIdle
  /\ ServicesIdle

(* mutant: rawScores is one module-level object shared by all calls *)
AccumulatorOfShared(k) == "s1"

(* line 54: `const rawScores = {...}` is a new object in every call *)
AccumulatorOf(k) == k

(* the other session's call is between its entry and its return *)
OtherUnderWay(k) ==
  \E j \in Sessions \ {k} : invPc[j] \in {"fold", "scored"}

(* lines 52-59 of session k's call: entry, the accumulator is set up *)
SessionEnter(k) ==
  /\ invPc[k] = "start"
  /\ heap' = [heap EXCEPT ![AccumulatorOf(k)] = InitialRawScores]
  /\ invPos' = [invPos EXCEPT ![k] = 1]
  /\ invPc' = [invPc EXCEPT ![k] = "fold"]
  /\ overlapped' = (overlapped \/ OtherUnderWay(k))
  /\ UNCHANGED <<invInput, invScores, invInterp>>
  /\ UNCHANGED <<coreVars, downstreamVars, assessVars, appVars, serviceVars>>

(* lines 62-67: one run of the forEach callback *)
SessionFold(k) ==
  /\ invPc[k] = "fold"
  /\ invPos[k] <= Len(invInput[k])
  /\ heap' = [heap EXCEPT ![AccumulatorOf(k)] = AddResponse(@, invInput[k][invPos[k]])]
  /\ invPos' = [invPos EXCEPT ![k] = @ + 1]
  /\ overlapped' = (overlapped \/ OtherUnderWay(k))
  /\ UNCHANGED <<invInput, invPc, invScores, invInterp>>
  /\ UNCHANGED <<coreVars, downstreamVars, assessVars, appVars, serviceVars>>

(* lines 69-95: total, percentages, correction, return *)
SessionReturn(k) ==
  /\ invPc[k] = "fold"
  /\ invPos[k] > Len(invInput[k])
  /\ LET raw == heap[AccumulatorOf(k)]
         total == SumValues(raw, 1)
     IN invScores' = [invScores EXCEPT ![k] =
                        IF total > 0 THEN EnsureSum100(RoundedPercentages(raw, total))
                        ELSE EqualDistribution]
  /\ invPc' = [invPc EXCEPT ![k] = "scored"]
  /\ overlapped' = (overlapped \/ OtherUnderWay(k))
  /\ UNCHANGED <<invInput, invPos, heap, invInterp>>
  /\ UNCHANGED <<coreVars, downstreamVars, assessVars, appVars, serviceVars>>

(* interpretVARKResults(scores) of session k, lines 116-173 *)
SessionInterpret(k) ==
  /\ invPc[k] = "scored"
  /\ invInterp' = [invInterp EXCEPT ![k] = Some(InterpretVARKResults(invScores[k]))]
  /\ invPc' = [invPc EXCEPT ![k] = "done"]
  /\ overlapped' = (overlapped \/ OtherUnderWay(k))
  /\ UNCHANGED <<invInput, invPos, heap, invScores>>
  /\ UNCHANGED <<coreVars, downstreamVars, assessVars, appVars, serviceVars>>

NextSessions ==
  \/ \E k \in Sessions : SessionEnter(k)
  \/ \E k \in Sessions : SessionFold(k)
  \/ \E k \in Sessions : SessionReturn(k)
  \/ \E k \in Sessions : SessionInterpret(k)

SpecSessions == InitSessions /\ [][NextSessions]_vars

(* ---- VarkAssessment (part_003) ------------------------------------------ *)

(* questionsData.domains: two weighted domains of two questions each *)
domains ==
  <<[id |-> "information_processing", weight |-> 1, questions |-> <<"ip1", "ip2">>],
    [id |-> "problem_solving", weight |-> 2, questions |-> <<"ps1", "ps2">>]>>

(* the style tags of the options of a question *)
OptionStyles == Styles

(* the scorer before any call *)
CoreIdle ==
  /\ responses = <<>>
  /\ pc = "idle"
  /\ rawScores = NoScores
  /\ totalScore = 0
  /\ branch = "none"
  /\ roundedScores = NoScores
  /\ sum = 0
  /\ adjusted = FALSE
  /\ dominantStyle = StyleOrder[1]
  /\ scores = NoScores
  /\ hasPrev = FALSE
  /\ prevScores = NoScores
  /\ NotInterpreted

InitAssessment ==
  /\ CoreIdle
  /\ RestIdle

(* what a render's handleAnswer closes over *)
Closure == [currentDomainIndex |-> currentDomainIndex,
            currentQuestionIndex |-> currentQuestionIndex,
            responses |-> vaResponses]

(* lines 43-48: the response record (indices are 0-based as in the code) *)
ResponseFor(c, selectedStyle) ==
  LET currentDomain == domains[c.currentDomainIndex + 1] IN
  [questionId |-> currentDomain.questions[c.currentQuestionIndex + 1],
   domainId |-> currentDomain.id,
   selectedStyle |-> selectedStyle,
   domainWeight |-> currentDomain.weight]

(* mutant: setResponses((prev) => [...prev, response]), the list grows from *)
(* the state of the moment, not from the one the handler closed over        *)
NewResponsesOfCurrent(c, response) == Append(vaResponses, response)

(* lines 50-51: newResponses = [...responses, response] *)
NewResponsesOf(c, response) == Append(c.responses, response)

(* mutant: the scorer is given the state `responses`, without the new answer *)
ScorerArgumentStale(c, newResponses) == c.responses

(* line 63: calculateVARKScores(newResponses) *)
ScorerArgument(c, newResponses) == newResponses

(* lines 53-61: neither a next question nor a next domain is left *)
IsComplete(c) ==
  /\ ~(c.currentQuestionIndex < Len(domains[c.currentDomainIndex + 1].questions) - 1)
  /\ ~(c.currentDomainIndex < Len(domains) - 1)

(* handleAnswer(selectedStyle) of the render that closed over c, lines 41-68, *)
(* followed by the effect of lines 32-39 when an index changed               *)
HandleAnswerOf(c, selectedStyle) ==
  LET response == ResponseFor(c, selectedStyle)
      newResponses == NewResponsesOf(c, response)
      currentDomain == domains[c.currentDomainIndex + 1]
  IN
  /\ vaResponses' = newResponses
  /\ IF c.currentQuestionIndex < Len(currentDomain.questions) - 1
     THEN /\ currentQuestionIndex' = c.currentQuestionIndex + 1
          /\ UNCHANGED <<currentDomainIndex, showResults, results>>
          /\ lastCall' = Some([at |-> c, scored |-> FALSE, argument |-> <<>>])
     ELSE IF ~IsComplete(c)
     THEN /\ currentDomainIndex' = c.currentDomainIndex + 1
          /\ currentQuestionIndex' = 0
          /\ UNCHANGED <<showResults, results>>
          /\ lastCall' = Some([at |-> c, scored |-> FALSE, argument |-> <<>>])
     ELSE LET argument == ScorerArgument(c, newResponses)
              sc == CalculateVARKScores(argument)
          IN /\ results' = Some([scores |-> sc, interpretation |-> InterpretVARKResults(sc)])
             /\ showResults' = TRUE
             /\ UNCHANGED <<currentDomainIndex, currentQuestionIndex>>
             /\ lastCall' = Some([at |-> c, scored |-> TRUE, argument |-> argument])
  /\ showDomainIntro' =
       IF /\ <<currentDomainIndex', currentQuestionIndex'>> # <<currentDomainIndex, currentQuestionIndex>>
          /\ currentQuestionIndex' = 0
       THEN TRUE ELSE showDomainIntro
  /\ prevRender' = Some(Closure)

(* a click on an option of the question card on screen, line 341 *)
HandleAnswer ==
  /\ ~showResults
  /\ ~showDomainIntro
  /\ \E selectedStyle \in OptionStyles : HandleAnswerOf(Closure, selectedStyle)
  /\ UNCHANGED <<coreVars, downstreamVars, sessionVars, appVars, serviceVars>>

(* a click on an option of the card of the previous render, which is still *)
(* mounted while AnimatePresence plays its exit (lines 259, 298-304)       *)
HandleAnswerStale ==
  /\ ~showResults
  /\ ~prevRender.isNull
  /\ \E selectedStyle \in OptionStyles : HandleAnswerOf(prevRender.value, selectedStyle)
  /\ UNCHANGED <<coreVars, downstreamVars, sessionVars, appVars, serviceVars>>

(* the timer of line 36 *)
DomainIntroTimeout ==
  /\ showDomainIntro
  /\ showDomainIntro' = FALSE
  /\ UNCHANGED <<currentDomainIndex, currentQuestionIndex, vaResponses, showResults,
                 results, prevRender, lastCall>>
  /\ UNCHANGED <<coreVars, downstreamVars, sessionVars, appVars, serviceVars>>

NextAssessment ==
  \/ HandleAnswer
  \/ HandleAnswerStale
  \/ DomainIntroTimeout

SpecAssessment == InitAssessment /\ [][NextAssessment]_vars

(* ---- App (client/src/App.jsx) ------------------------------------------ *)

MaxPendingChecks == 1
MaxUpdates == 1

(* the instants new Date() may read *)
Instants == {1, 2}

UserId == "u1"

(* what localStorage may hold under 'supabase.auth.token' *)
TokenTexts == {"not-json", "session-without-user", "session-of-u1"}

StoredTokens == {Null} \cup {Some(t) : t \in TokenTexts}

(* JSON.parse, line 27: throws on text that is not JSON *)
JSONParse(text) ==
  IF text = "not-json"
  THEN [threw |-> TRUE]
  ELSE [threw |-> FALSE,
        value |-> [user |-> IF text = "session-of-u1" THEN Some([id |-> UserId]) ELSE Null]]

(* the session object the Supabase client hands out for the signed-in user *)
LibrarySession == Some([user |-> Some([id |-> UserId])])

(* Date.prototype.toISOString, line 128 *)
ToISOString(t) == <<"iso", t>>

(* a row of table profiles, as far as App reads and writes it *)
NewProfile ==
  [vark_visual |-> 0, vark_auditory |-> 0, vark_reading_writing |-> 0,
   vark_kinesthetic |-> 0, assessment_completed_at |-> Null]

AssessedProfile ==
  [vark_visual |-> 40, vark_auditory |-> 20, vark_reading_writing |-> 25,
   vark_kinesthetic |-> 15, assessment_completed_at |-> Some(ToISOString(0))]

DbRows == {Null, Some(NewProfile), Some(AssessedProfile)}

(* answer lists whose scores VarkAssessment passes to onComplete: none *)
(* counted, one style only, and all four styles with unequal weights   *)
AppAnswerLists ==
  {<<>>,
   <<[selectedStyle |-> "reading_writing"]>>,
   <<[selectedStyle |-> "visual", domainWeight |-> 8],
     [selectedStyle |-> "auditory", domainWeight |-> 4],
     [selectedStyle |-> "reading_writing", domainWeight |-> 5],
     [selectedStyle |-> "kinesthetic", domainWeight |-> 3]>>}

(* results.scores, part_003 lines 63 and 225 *)
AppScoreVectors == {CalculateVARKScores(rs) : rs \in AppAnswerLists}

(* mutant: reading_writing and kinesthetic are stored in each other's column *)
UpdateRequestSwapped(sc, sess, t) ==
  [id |-> sess.user.value.id,
   set |-> [vark_visual |-> sc.visual,
            vark_auditory |-> sc.auditory,
            vark_reading_writing |-> sc.kinesthetic,
            vark_kinesthetic |-> sc.reading_writing,
            assessment_completed_at |-> Some(ToISOString(t))]]

(* lines 121-130: the update and its filter *)
UpdateRequest(sc, sess, t) ==
  [id |-> sess.user.value.id,
   set |-> [vark_visual |-> sc.visual,
            vark_auditory |-> sc.auditory,
            vark_reading_writing |-> sc.reading_writing,
            vark_kinesthetic |-> sc.kinesthetic,
            assessment_completed_at |-> Some(ToISOString(t))]]

(* the store applying an update to the user's row (no row: nothing matches) *)
ApplyUpdate(row, req) ==
  IF row.isNull
  THEN row
  ELSE Some([f \in DOMAIN row.value |->
              IF f \in DOMAIN req.set THEN req.set[f] ELSE row.value[f]])

(* mutant: `&&` for `||`, every style must have a share *)
HasVarkScoresAll(data) ==
  /\ data.vark_visual > 0
  /\ data.vark_auditory > 0
  /\ data.vark_reading_writing > 0
  /\ data.vark_kinesthetic > 0

(* lines 96-100 *)
HasVarkScores(data) ==
  \/ data.vark_visual > 0
  \/ data.vark_auditory > 0
  \/ data.vark_reading_writing > 0
  \/ data.vark_kinesthetic > 0

notAppVars == <<coreVars, downstreamVars, sessionVars, assessVars, serviceVars>>

InitApp ==
  /\ CoreIdle
  /\ DownstreamIdle
  /\ SessionsIdle
  /\ AssessmentMounted
  /\ ServicesIdle
  /\ PageLoaded
  /\ localToken \in StoredTokens
  /\ libSession \in {Null, LibrarySession}
  /\ dbRow \in DbRows

(* the effect of lines 16-76, up to its first return *)
Mount ==
  /\ ~mounted
  /\ mounted' = TRUE
  /\ LET parsed == IF localToken.isNull THEN [threw |-> TRUE] ELSE JSONParse(localToken.value)
     IN IF ~localToken.isNull /\ ~parsed.threw
        THEN /\ loadingTimeout' = FALSE
             /\ session' = Some(parsed.value)
             /\ IF ~parsed.value.user.isNull
                THEN /\ pendingChecks' = pendingChecks + 1
                     /\ UNCHANGED step
                ELSE /\ step' = "auth"
                     /\ UNCHANGED pendingChecks
             /\ UNCHANGED <<getSessionPending, subscribed>>
        ELSE /\ loadingTimeout' = TRUE
             /\ getSessionPending' = TRUE
             /\ subscribed' = TRUE
             /\ UNCHANGED <<session, step, pendingChecks>>
  /\ UNCHANGED <<appProfile, localToken, libSession, dbRow, updatesIssued, updatePending,
                 lastComplete, checkOutcome>>
  /\ UNCHANGED notAppVars

(* the timer callback of lines 18-21 *)
LoadingTimeout ==
  /\ loadingTimeout
  /\ loadingTimeout' = FALSE
  /\ step' = "auth"
  /\ UNCHANGED <<mounted, session, appProfile, localToken, libSession, getSessionPending,
                 subscribed, pendingChecks, dbRow, updatesIssued, updatePending,
                 lastComplete, checkOutcome>>
  /\ UNCHANGED notAppVars

(* lines 52-57: getSession() resolves *)
GetSessionResolves ==
  /\ getSessionPending
  /\ getSessionPending' = FALSE
  /\ loadingTimeout' = FALSE
  /\ session' = libSession
  /\ IF ~libSession.isNull
     THEN /\ pendingChecks < MaxPendingChecks
          /\ pendingChecks' = pendingChecks + 1
          /\ UNCHANGED step
     ELSE /\ step' = "auth"
          /\ UNCHANGED pendingChecks
  /\ UNCHANGED <<mounted, appProfile, localToken, libSession, subscribed, dbRow,
                 updatesIssued, updatePending, lastComplete, checkOutcome>>
  /\ UNCHANGED notAppVars

(* lines 58-62: getSession() rejects *)
GetSessionRejects ==
  /\ getSessionPending
  /\ getSessionPending' = FALSE
  /\ loadingTimeout' = FALSE
  /\ step' = "auth"
  /\ UNCHANGED <<mounted, session, appProfile, localToken, libSession, subscribed,
                 pendingChecks, dbRow, updatesIssued, updatePending, lastComplete, checkOutcome>>
  /\ UNCHANGED notAppVars

(* lines 66-70: the client reports a sign-in or a sign-out *)
AuthStateChange ==
  /\ subscribed
  /\ \E s \in {Null, LibrarySession} :
       /\ libSession' = s
       /\ session' = s
       /\ IF ~s.isNull
          THEN /\ pendingChecks < MaxPendingChecks
               /\ pendingChecks' = pendingChecks + 1
               /\ UNCHANGED step
          ELSE /\ step' = "auth"
               /\ UNCHANGED pendingChecks
  /\ UNCHANGED <<mounted, appProfile, localToken, loadingTimeout, getSessionPending,
                 subscribed, dbRow, updatesIssued, updatePending, lastComplete, checkOutcome>>
  /\ UNCHANGED notAppVars

(* checkUserProfile from line 86 on: the select of lines 80-84 has settled *)
CheckUserProfileResponds ==
  /\ pendingChecks > 0
  /\ pendingChecks' = pendingChecks - 1
  /\ \E outcome \in {"data", "error", "throw"} :
       /\ checkOutcome' = Some(outcome)
       /\ IF outcome = "data"
          THEN /\ ~dbRow.isNull
               /\ appProfile' = dbRow
               /\ step' = IF HasVarkScores(dbRow.value) THEN "dashboard" ELSE "assessment"
          ELSE /\ step' = "assessment"
               /\ UNCHANGED appProfile
  /\ UNCHANGED <<mounted, session, localToken, libSession, loadingTimeout,
                 getSessionPending, subscribed, dbRow, updatesIssued, updatePending,
                 lastComplete>>
  /\ UNCHANGED notAppVars

(* handleAssessmentComplete(scores) up to the await of line 121 *)
HandleAssessmentComplete ==
  /\ mounted
  /\ step = "assessment"
  /\ \E sc \in AppScoreVectors, now \in Instants :
       /\ lastComplete' = Some([scores |-> sc, session |-> session,
                                issuedBefore |-> Len(updatesIssued)])
       /\ IF session.isNull
          THEN UNCHANGED <<updatesIssued, updatePending>>
          ELSE IF session.value.user.isNull
          THEN UNCHANGED <<updatesIssued, updatePending>> \* line 130 throws, line 138 catches
          ELSE /\ Len(updatesIssued) < MaxUpdates
               /\ updatesIssued' = Append(updatesIssued, UpdateRequest(sc, session.value, now))
               /\ updatePending' = updatePending \cup {Len(updatesIssued) + 1}
  /\ UNCHANGED <<mounted, step, session, appProfile, localToken, libSession, loadingTimeout,
                 getSessionPending, subscribed, pendingChecks, dbRow, checkOutcome>>
  /\ UNCHANGED notAppVars

(* handleAssessmentComplete from line 132 on: the update has settled *)
UpdateResponds ==
  /\ \E i \in updatePending, outcome \in {"ok", "error", "throw"} :
       /\ updatePending' = updatePending \ {i}
       /\ IF outcome = "ok"
          THEN /\ pendingChecks < MaxPendingChecks
               /\ dbRow' = ApplyUpdate(dbRow, updatesIssued[i])
               /\ pendingChecks' = pendingChecks + 1
          ELSE UNCHANGED <<dbRow, pendingChecks>>
  /\ UNCHANGED <<mounted, step, session, appProfile, localToken, libSession, loadingTimeout,
                 getSessionPending, subscribed, updatesIssued, lastComplete, checkOutcome>>
  /\ UNCHANGED notAppVars

(* the page is loaded anew: App state is rebuilt, timers and promises are *)
(* gone, a request on its way may or may not have reached the store       *)
PageReload ==
  /\ mounted' = FALSE
  /\ step' = "loading"
  /\ session' = Null
  /\ appProfile' = Null
  /\ loadingTimeout' = FALSE
  /\ getSessionPending' = FALSE
  /\ subscribed' = FALSE
  /\ pendingChecks' = 0
  /\ updatePending' = {}
  /\ dbRow' \in {dbRow} \cup {ApplyUpdate(dbRow, updatesIssued[i]) : i \in updatePending}
  /\ checkOutcome' = Null
  /\ UNCHANGED <<updatesIssued, lastComplete>>

(* Sign Out in the navigation bar, lines 180-193 *)
NavSignOut ==
  /\ mounted
  /\ step # "loading"
  /\ ~(step = "dashboard" /\ ~appProfile.isNull)
  /\ ~session.isNull
  /\ libSession' = Null
  /\ PageReload
  /\ UNCHANGED localToken
  /\ UNCHANGED notAppVars

(* Sign Out on a dashboard: part_007 lines 195-203, and the same handler *)
(* in pages/TeacherDashboard.jsx lines 117-125                           *)
DashboardSignOut ==
  /\ mounted
  /\ step = "dashboard"
  /\ ~appProfile.isNull
  /\ localToken' = Null
  /\ libSession' = Null
  /\ PageReload
  /\ UNCHANGED notAppVars

(* Back to Login on the assessment screen, lines 227-237 *)
BackToLogin ==
  /\ mounted
  /\ step = "assessment"
  /\ libSession' = Null
  /\ session' = Null
  /\ appProfile' = Null
  /\ step' = "auth"
  /\ UNCHANGED <<mounted, localToken, loadingTimeout, getSessionPending, subscribed,
                 pendingChecks, dbRow, updatesIssued, updatePending, lastComplete, checkOutcome>>
  /\ UNCHANGED notAppVars

(* a successful sign-in on the auth screen: Auth.jsx lines 23-37 and 89-93 *)
SignIn ==
  /\ mounted
  /\ step = "auth"
  /\ localToken' = Some("session-of-u1")
  /\ libSession' = LibrarySession
  /\ PageReload
  /\ UNCHANGED notAppVars

NextApp ==
  \/ Mount
  \/ LoadingTimeout
  \/ GetSessionResolves
  \/ GetSessionRejects
  \/ AuthStateChange
  \/ CheckUserProfileResponds
  \/ HandleAssessmentComplete
  \/ UpdateResponds
  \/ NavSignOut
  \/ DashboardSignOut
  \/ BackToLogin
  \/ SignIn

SpecApp == InitApp /\ [][NextApp]_vars

(* React runs the effect of a mounted component, and an armed timer fires; *)
(* nothing obliges the backend to answer                                   *)
SpecAppFair == SpecApp /\ WF_vars(Mount) /\ WF_vars(LoadingTimeout)

(* ---- toggleReplyLike (part_005) ----------------------------------------- *)

MaxLikeId == 3

LikeUsers == {"u1", "u2"}

Replies == {"r1", "r2"}

(* the client with every service module unused *)
ClientIdle ==
  /\ CoreIdle
  /\ DownstreamIdle
  /\ SessionsIdle
  /\ AssessmentMounted
  /\ AppIdle

InitServices ==
  /\ ClientIdle
  /\ ServicesIdle

(* the rows the filters of lines 477-478 match *)
LikesOf(rows, replyId, userId) ==
  {r \in rows : r.reply_id = replyId /\ r.user_id = userId}

(* mutant: the check of lines 474-479 finds nothing *)
ExistingLikeOfNone(rows, replyId, userId) == Null

(* lines 474-487: .single() gives the row when exactly one matches, and *)
(* error PGRST116 with no data otherwise                                *)
ExistingLikeOf(rows, replyId, userId) ==
  LET matched == LikesOf(rows, replyId, userId) IN
  IF Cardinality(matched) = 1
  THEN Some([id |-> (CHOOSE r \in matched : TRUE).id])
  ELSE Null

(* lines 466-471: getUser, then the throw for a visitor without a user *)
ToggleEnter ==
  /\ likeCall.isNull
  /\ \E replyId \in Replies, user \in {Null} \cup {Some([id |-> u]) : u \in LikeUsers} :
       IF user.isNull
       THEN UNCHANGED likeCall
       ELSE likeCall' = Some([replyId |-> replyId, user |-> user.value, at |-> "select",
                              existingLike |-> Null,
                              before |-> LikesOf(likeRows, replyId, user.value.id)])
  /\ UNCHANGED <<likeRows, likeNextId, likeLast, likePrev>>
  /\ UNCHANGED notLikeVars

(* lines 474-487: the select settles *)
ToggleCheck ==
  /\ ~likeCall.isNull
  /\ likeCall.value.at = "select"
  /\ \E failed \in BOOLEAN :
       IF failed
       THEN likeCall' = Null \* line 484 throws
       ELSE LET existingLike == ExistingLikeOf(likeRows, likeCall.value.replyId,
                                               likeCall.value.user.id)
            IN likeCall' = Some([likeCall.value EXCEPT
                                   !.existingLike = existingLike,
                                   !.at = IF existingLike.isNull THEN "insert" ELSE "delete"])
  /\ UNCHANGED <<likeRows, likeNextId, likeLast, likePrev>>
  /\ UNCHANGED notLikeVars

(* the call returns `value` *)
ToggleReturns(value) ==
  /\ likeLast' = Some([replyId |-> likeCall.value.replyId,
                       user |-> likeCall.value.user,
                       value |-> value,
                       before |-> likeCall.value.before,
                       after |-> LikesOf(likeRows', likeCall.value.replyId,
                                         likeCall.value.user.id)])
  /\ likePrev' = likeLast
  /\ likeCall' = Null

(* lines 489-499: the delete settles *)
ToggleUnlike ==
  /\ ~likeCall.isNull
  /\ likeCall.value.at = "delete"
  /\ \E failed \in BOOLEAN :
       IF failed
       THEN /\ likeCall' = Null \* line 496 throws
            /\ UNCHANGED <<likeRows, likeLast, likePrev>>
       ELSE /\ likeRows' = {r \in likeRows : r.id # likeCall.value.existingLike.value.id}
            /\ ToggleReturns(FALSE)
  /\ UNCHANGED likeNextId
  /\ UNCHANGED notLikeVars

(* lines 502-514: the insert settles *)
ToggleLike ==
  /\ ~likeCall.isNull
  /\ likeCall.value.at = "insert"
  /\ \E failed \in BOOLEAN :
       IF failed
       THEN /\ likeCall' = Null \* line 511 throws
            /\ UNCHANGED <<likeRows, likeNextId, likeLast, likePrev>>
       ELSE /\ likeNextId <= MaxLikeId
            /\ likeRows' = likeRows \cup {[id |-> likeNextId,
                                           reply_id |-> likeCall.value.replyId,
                                           user_id |-> likeCall.value.user.id]}
            /\ likeNextId' = likeNextId + 1
            /\ ToggleReturns(TRUE)
  /\ UNCHANGED notLikeVars

NextLikes ==
  \/ ToggleEnter
  \/ ToggleCheck
  \/ ToggleUnlike
  \/ ToggleLike

(* one toggleReplyLike call at a time *)
SpecLikes == InitServices /\ [][NextLikes]_vars

(* ---- joinStudyGroup (client/src/services/studyGroupService.js) --------- *)

DefaultMaxMembers == 10

(* the values of maxMembers a group is created with; 0 stands for none given *)
MaxMembersGiven == {0, 1, 2}

(* line 150: maxMembers || 10 *)
MaxMembersOf(maxMembers) == IF maxMembers = 0 THEN DefaultMaxMembers ELSE maxMembers

(* createStudyGroup, lines 135-179: the group row, then the creator's *)
(* membership, whose failure is only logged                           *)
CreateStudyGroup ==
  /\ groupRow.isNull
  /\ \E user \in GroupUsers, maxMembers \in MaxMembersGiven, membershipFailed \in BOOLEAN :
       /\ groupRow' = Some([creator_id |-> user, max_members |-> MaxMembersOf(maxMembers)])
       /\ memberships' = IF membershipFailed THEN memberships
                         ELSE memberships \cup {[student_id |-> user, role |-> "creator"]}
  /\ UNCHANGED <<joinAt, joinResult>>
  /\ UNCHANGED notGroupVars

(* lines 186-191: the call starts for a signed-in user *)
JoinEnter(user) ==
  /\ ~groupRow.isNull
  /\ joinAt[user] = "idle"
  /\ joinAt' = [joinAt EXCEPT ![user] = "check"]
  /\ joinResult' = [joinResult EXCEPT ![user] = "none"]
  /\ UNCHANGED <<groupRow, memberships>>
  /\ UNCHANGED notGroupVars

(* line 206 *)
IsFull(currentMembers, group) == currentMembers >= group.max_members

(* lines 194-208: the select settles, the count is compared *)
JoinCheck(user) ==
  /\ joinAt[user] = "check"
  /\ \E failed \in BOOLEAN :
       IF failed
       THEN /\ joinAt' = [joinAt EXCEPT ![user] = "idle"]
            /\ joinResult' = [joinResult EXCEPT ![user] = "error"]
       ELSE LET currentMembers == Cardinality(memberships) IN
            IF IsFull(currentMembers, groupRow.value)
            THEN /\ joinAt' = [joinAt EXCEPT ![user] = "idle"]
                 /\ joinResult' = [joinResult EXCEPT ![user] = "Group is full"]
            ELSE /\ joinAt' = [joinAt EXCEPT ![user] = "insert"]
                 /\ UNCHANGED joinResult
  /\ UNCHANGED <<groupRow, memberships>>
  /\ UNCHANGED notGroupVars

(* lines 211-230: the insert settles; the store refuses a second row of *)
(* one student with error 23505                                         *)
JoinInsert(user) ==
  /\ joinAt[user] = "insert"
  /\ joinAt' = [joinAt EXCEPT ![user] = "idle"]
  /\ \E failed \in BOOLEAN :
       IF failed
       THEN /\ joinResult' = [joinResult EXCEPT ![user] = "error"]
            /\ UNCHANGED memberships
       ELSE IF \E m \in memberships : m.student_id = user
       THEN /\ joinResult' = [joinResult EXCEPT ![user] = "Already a member of this group"]
            /\ UNCHANGED memberships
       ELSE /\ memberships' = memberships \cup {[student_id |-> user, role |-> "member"]}
            /\ joinResult' = [joinResult EXCEPT ![user] = "joined"]
  /\ UNCHANGED groupRow
  /\ UNCHANGED notGroupVars

(* leaveStudyGroup, lines 238-255 *)
LeaveStudyGroup(user) ==
  /\ ~groupRow.isNull
  /\ memberships' = {m \in memberships : m.student_id # user}
  /\ UNCHANGED <<groupRow, joinAt, joinResult>>
  /\ UNCHANGED notGroupVars

NextGroups ==
  \/ CreateStudyGroup
  \/ \E user \in GroupUsers :
       \/ JoinEnter(user)
       \/ JoinCheck(user)
       \/ JoinInsert(user)
       \/ LeaveStudyGroup(user)

(* the calls of the users overlap freely *)
SpecGroups == InitServices /\ [][NextGroups]_vars

(* ---- quiz questions (part_004) ------------------------------------------ *)

MaxQuestionId == 3

DefaultPoints == 1

(* the points a caller passes; 0 stands for none given *)
PointsGiven == {0, 1, 2}

(* line 174: points || 1 *)
PointsOf(points) == IF points = 0 THEN DefaultPoints ELSE points

RECURSIVE SumPoints(_)
(* line 246: reduce((sum, q) => sum + (q.points || 0), 0) *)
SumPoints(questions) ==
  IF questions = {} THEN 0
  ELSE LET q == CHOOSE x \in questions : TRUE
       IN q.points + SumPoints(questions \ {q})

(* updateQuizTotalPoints(quizId), lines 240-252: what it leaves in column *)
(* total_points; a failed select yields no data and so a total of 0, a    *)
(* failed update leaves the column as it is                               *)
UpdateQuizTotalPoints(quizId, questions, selectFailed, updateFailed) ==
  LET selected == IF selectFailed THEN {} ELSE {q \in questions : q.quiz_id = quizId}
      totalPoints == SumPoints(selected)
  IN IF updateFailed THEN quizTotalPoints
     ELSE [quizTotalPoints EXCEPT ![quizId] = totalPoints]

(* addQuizQuestion, lines 158-190 *)
AddQuizQuestion ==
  /\ \E quizId \in Quizzes, points \in PointsGiven, failed \in BOOLEAN,
        selectFailed \in BOOLEAN, updateFailed \in BOOLEAN :
       IF failed
       THEN UNCHANGED <<quizQuestions, quizTotalPoints, quizNextId>> \* line 183 throws
       ELSE /\ quizNextId <= MaxQuestionId
            /\ quizQuestions' = quizQuestions \cup
                 {[id |-> quizNextId, quiz_id |-> quizId, points |-> PointsOf(points)]}
            /\ quizNextId' = quizNextId + 1
            /\ quizTotalPoints' =
                 UpdateQuizTotalPoints(quizId, quizQuestions', selectFailed, updateFailed)
  /\ UNCHANGED notQuizVars

(* updateQuizQuestion(questionId, {points}), lines 198-212 *)
UpdateQuizQuestion ==
  /\ \E question \in quizQuestions, points \in {1, 2}, failed \in BOOLEAN :
       IF failed
       THEN UNCHANGED quizQuestions \* line 208 throws
       ELSE quizQuestions' = (quizQuestions \ {question})
                               \cup {[question EXCEPT !.points = points]}
  /\ UNCHANGED <<quizTotalPoints, quizNextId>>
  /\ UNCHANGED notQuizVars

(* deleteQuizQuestion(questionId, quizId), lines 220-233 *)
DeleteQuizQuestion ==
  /\ \E question \in quizQuestions, quizId \in Quizzes, failed \in BOOLEAN,
        selectFailed \in BOOLEAN, updateFailed \in BOOLEAN :
       IF failed
       THEN UNCHANGED <<quizQuestions, quizTotalPoints>> \* line 228 throws
       ELSE /\ quizQuestions' = quizQuestions \ {question}
            /\ quizTotalPoints' =
                 UpdateQuizTotalPoints(quizId, quizQuestions', selectFailed, updateFailed)
  /\ UNCHANGED quizNextId
  /\ UNCHANGED notQuizVars

NextQuizzes ==
  \/ AddQuizQuestion
  \/ UpdateQuizQuestion
  \/ DeleteQuizQuestion

(* every call runs to completion before the next one starts *)
SpecQuizzes == InitServices /\ [][NextQuizzes]_vars

(* ---- ContentEngine (client/src/components/ContentEngine.jsx) ----------- *)

MaxRequests == 3

(* line 14 *)
styles == {"Visual", "Auditory", "Reading/Writing", "Kinesthetic"}

(* response.data.content of a transform request for `style` *)
ContentFor(style) == <<"content in style ", style>>

(* line 35 *)
ErrorContent == <<"**Error**: Failed to generate content. Please try again.">>

(* handleGenerate(style) up to the await of line 27; called by the effect *)
(* of lines 16-20 and by the style buttons of line 48                     *)
HandleGenerate ==
  /\ nextRequest <= MaxRequests
  /\ \E style \in styles :
       /\ isLoading' = TRUE
       /\ currentStyle' = style
       /\ outstanding' = outstanding \cup {[id |-> nextRequest, style |-> style]}
  /\ nextRequest' = nextRequest + 1
  /\ UNCHANGED generatedContent
  /\ UNCHANGED notEngineVars

(* handleGenerate from line 32 on: the request of one call settles *)
TransformSettles ==
  /\ \E request \in outstanding, failed \in BOOLEAN :
       /\ generatedContent' = IF failed THEN ErrorContent ELSE ContentFor(request.style)
       /\ outstanding' = outstanding \ {request}
  /\ isLoading' = FALSE
  /\ UNCHANGED <<currentStyle, nextRequest>>
  /\ UNCHANGED notEngineVars

NextEngine ==
  \/ HandleGenerate
  \/ TransformSettles

SpecEngine == InitServices /\ [][NextEngine]_vars

(* ---- updateMaterialCompletion (part_006) -------------------------------- *)

MaxCompletionId == 2
MaxTime == 3

Students == {"u1", "u2"}

ClassMaterials == {"cm1"}

(* the `completion` arguments a viewer passes *)
CompletionsGiven ==
  {[status |-> "in_progress", progressPercentage |-> 50,
    preferredStyle |-> "visual", timeSpentSeconds |-> 60],
   [status |-> "completed", progressPercentage |-> 100,
    preferredStyle |-> "visual", timeSpentSeconds |-> 120]}

(* line 264: select('id') returns the row's id and nothing else *)
SelectedColumns(row) == [id |-> row.id]

(* lines 262-267: the row .single() yields; none when no row or several *)
(* match, or when the request fails (its error is not read)             *)
ExistingCompletion(rows, classMaterialId, userId, selectFailed) ==
  LET matched == {r \in rows : r.class_material_id = classMaterialId /\ r.student_id = userId}
  IN IF selectFailed \/ Cardinality(matched) # 1
     THEN Null
     ELSE Some(SelectedColumns(CHOOSE r \in matched : TRUE))

(* existing.started_at: undefined for a column that was not selected *)
StartedAtOf(existing) ==
  IF "started_at" \in DOMAIN existing THEN existing.started_at ELSE Null

(* line 280 and line 300 *)
CompletedAtOf(completion, t) ==
  IF completion.status = "completed" THEN Some(ToISOString(t)) ELSE Null

(* lines 273-281, applied to the row with the id of line 282 *)
UpdatedCompletion(row, existing, completion, t) ==
  [row EXCEPT
     !.status = completion.status,
     !.progress_percentage = completion.progressPercentage,
     !.preferred_style = completion.preferredStyle,
     !.time_spent_seconds = completion.timeSpentSeconds,
     !.last_accessed_at = Some(ToISOString(t)),
     !.started_at = IF StartedAtOf(existing).isNull THEN Some(ToISOString(t))
                    ELSE StartedAtOf(existing),
     !.completed_at = CompletedAtOf(completion, t)]

(* lines 292-301 *)
InsertedCompletion(id, classMaterialId, userId, completion, t) ==
  [id |-> id,
   class_material_id |-> classMaterialId,
   student_id |-> userId,
   status |-> completion.status,
   progress_percentage |-> completion.progressPercentage,
   preferred_style |-> completion.preferredStyle,
   time_spent_seconds |-> completion.timeSpentSeconds,
   last_accessed_at |-> Null,
   started_at |-> Some(ToISOString(t)),
   completed_at |-> CompletedAtOf(completion, t)]

(* updateMaterialCompletion(classMaterialId, completion) by a signed-in *)
(* student, lines 254-308, run to completion                            *)
UpdateMaterialCompletion ==
  /\ \E classMaterialId \in ClassMaterials, userId \in Students,
        completion \in CompletionsGiven, selectFailed \in BOOLEAN, writeFailed \in BOOLEAN :
       LET existing == ExistingCompletion(completions, classMaterialId, userId, selectFailed)
       IN IF writeFailed
          THEN UNCHANGED <<completions, completionNextId>> \* line 286 or 305 throws
          ELSE IF ~existing.isNull
          THEN /\ completions' =
                    {IF r.id = existing.value.id
                     THEN UpdatedCompletion(r, existing.value, completion, wallClock)
                     ELSE r : r \in completions}
               /\ UNCHANGED completionNextId
          ELSE /\ completionNextId <= MaxCompletionId
               /\ completions' = completions \cup
                    {InsertedCompletion(completionNextId, classMaterialId, userId,
                                        completion, wallClock)}
               /\ completionNextId' = completionNextId + 1
  /\ UNCHANGED wallClock
  /\ UNCHANGED notCompletionVars

(* time passes between two calls *)
TimePasses ==
  /\ wallClock < MaxTime
  /\ wallClock' = wallClock + 1
  /\ UNCHANGED <<completions, completionNextId>>
  /\ UNCHANGED notCompletionVars

NextCompletions ==
  \/ UpdateMaterialCompletion
  \/ TimePasses

SpecCompletions == InitServices /\ [][NextCompletions]_vars

(* ---- the JavaScript number type: IEEE 754 binary64 --------------------- *)
(* The integer model of the scorer above is exact for whole weights.  A    *)
(* weight with a fraction (1.2, 0.4) is a binary64 value, and `+=`         *)
(* (line 65), `+` (line 70), `/` and `*` (line 76) each round their exact   *)
(* result to 53 significant bits, ties to even.  The operators below       *)
(* compute these roundings on naturals of any size, kept as sequences of   *)
(* limbs, lowest limb first, without high zero limbs.  No value of the     *)
(* scorer leaves the normal range, so exponents are unbounded here and     *)
(* subnormals, infinities and NaN do not occur.                            *)

(* bits of one limb *)
LimbBits == 15

(* 2^LimbBits *)
LimbBase == 32768

(* significant bits of a binary64 number *)
Precision == 53

RECURSIVE Pow2(_)
Pow2(n) == IF n = 0 THEN 1 ELSE 2 * Pow2(n - 1)

RECURSIVE Zeros(_)
Zeros(n) == IF n = 0 THEN <<>> ELSE <<0>> \o Zeros(n - 1)

RECURSIVE Trim(_)
(* drops high zero limbs *)
Trim(a) ==
  IF a = <<>> THEN a
  ELSE IF a[Len(a)] = 0 THEN Trim(SubSeq(a, 1, Len(a) - 1)) ELSE a

Limb(a, i) == IF i <= Len(a) THEN a[i] ELSE 0

RECURSIVE AddFrom(_, _, _, _)
AddFrom(a, b, i, carry) ==
  IF i > Len(a) /\ i > Len(b)
  THEN IF carry = 0 THEN <<>> ELSE <<carry>>
  ELSE LET s == Limb(a, i) + Limb(b, i) + carry
       IN <<s % LimbBase>> \o AddFrom(a, b, i + 1, s \div LimbBase)

(* a + b *)
BigAdd(a, b) == AddFrom(a, b, 1, 0)

RECURSIVE SubFrom(_, _, _, _)
SubFrom(a, b, i, borrow) ==
  IF i > Len(a) THEN <<>>
  ELSE LET d == a[i] - Limb(b, i) - borrow
       IN <<IF d < 0 THEN d + LimbBase ELSE d>>
          \o SubFrom(a, b, i + 1, IF d < 0 THEN 1 ELSE 0)

(* a - b, for a >= b *)
BigSub(a, b) == Trim(SubFrom(a, b, 1, 0))

RECURSIVE LessFrom(_, _, _)
LessFrom(a, b, i) ==
  IF i = 0 THEN FALSE
  ELSE IF a[i] # b[i] THEN a[i] < b[i] ELSE LessFrom(a, b, i - 1)

(* a < b *)
BigLess(a, b) ==
  IF Len(a) # Len(b) THEN Len(a) < Len(b) ELSE LessFrom(a, b, Len(a))

RECURSIVE MulFrom(_, _, _, _)
MulFrom(a, k, i, carry) ==
  IF i > Len(a)
  THEN IF carry = 0 THEN <<>> ELSE <<carry>>
  ELSE LET p == a[i] * k + carry
       IN <<p % LimbBase>> \o MulFrom(a, k, i + 1, p \div LimbBase)

(* a * k, for 0 < k <= LimbBase *)
MulSmall(a, k) == MulFrom(a, k, 1, 0)

RECURSIVE DivFrom(_, _, _, _)
DivFrom(a, k, i, rem) ==
  IF i = 0 THEN <<>>
  ELSE LET cur == rem * LimbBase + a[i]
       IN DivFrom(a, k, i - 1, cur % k) \o <<cur \div k>>

(* floor(a / k), for 0 < k <= LimbBase *)
DivSmall(a, k) == Trim(DivFrom(a, k, Len(a), 0))

RECURSIVE BitLengthSmall(_)
BitLengthSmall(n) == IF n = 0 THEN 0 ELSE 1 + BitLengthSmall(n \div 2)

(* number of bits of a *)
BitLength(a) ==
  IF a = <<>> THEN 0
  ELSE (Len(a) - 1) * LimbBits + BitLengthSmall(a[Len(a)])

(* a * 2^s *)
ShiftLeft(a, s) ==
  IF a = <<>> THEN a
  ELSE Zeros(s \div LimbBits) \o MulSmall(a, Pow2(s % LimbBits))

(* floor(a / 2^s) *)
ShiftRight(a, s) ==
  IF s \div LimbBits >= Len(a) THEN <<>>
  ELSE DivSmall(SubSeq(a, s \div LimbBits + 1, Len(a)), Pow2(s % LimbBits))

(* bit j of a, bit 0 the lowest *)
BitAt(a, j) == (Limb(a, j \div LimbBits + 1) \div Pow2(j % LimbBits)) % 2

(* a is a multiple of 2^s *)
LowBitsZero(a, s) ==
  /\ \A i \in 1..(s \div LimbBits) : Limb(a, i) = 0
  /\ Limb(a, s \div LimbBits + 1) % Pow2(s % LimbBits) = 0

(* a small natural as limbs, and back *)
BigOf(n) == Trim(<<n % LimbBase, n \div LimbBase>>)

BigToInt(a) == Limb(a, 1) + LimbBase * Limb(a, 2)

(* a binary64 number m * 2^e: m is zero or has exactly 53 bits *)
DoubleZero == [m |-> <<>>, e |-> 0]

(* round to nearest, ties to even, of (m + f) * 2^e, where 0 <= f < 1 and *)
(* inexact says that f > 0; an inexact m has more than 53 bits            *)
RoundNearestEven(m, e, inexact) ==
  LET n == BitLength(m) IN
  IF n = 0 THEN DoubleZero
  ELSE IF n <= Precision
  THEN [m |-> ShiftLeft(m, Precision - n), e |-> e - (Precision - n)]
  ELSE LET d == n - Precision
           kept == ShiftRight(m, d)
           half == BitAt(m, d - 1) = 1
           more == inexact \/ ~LowBitsZero(m, d - 1)
           up == half /\ (more \/ BitAt(kept, 0) = 1)
           r == IF up THEN BigAdd(kept, <<1>>) ELSE kept
       IN IF BitLength(r) > Precision
          THEN [m |-> ShiftRight(r, 1), e |-> e + d + 1]
          ELSE [m |-> r, e |-> e + d]

(* x + y *)
DoubleAdd(x, y) ==
  IF x.m = <<>> THEN y
  ELSE IF y.m = <<>> THEN x
  ELSE LET e == IF x.e < y.e THEN x.e ELSE y.e
       IN RoundNearestEven(BigAdd(ShiftLeft(x.m, x.e - e), ShiftLeft(y.m, y.e - e)),
                           e, FALSE)

(* limbs of the quotient computed after its leading bit: 60 bits, so that *)
(* the bit that decides the rounding is among them                        *)
QuotientLimbs == 4

RECURSIVE LimbDivision(_, _, _)
(* the next n bits of the quotient of a division by d that has come to *)
(* the remainder r < d, and the remainder after them                   *)
LimbDivision(r, d, n) ==
  IF n = 0 THEN [quotient |-> 0, remainder |-> r]
  ELSE LET r2 == MulSmall(r, 2)
           fits == ~BigLess(r2, d)
           rest == LimbDivision(IF fits THEN BigSub(r2, d) ELSE r2, d, n - 1)
       IN [quotient |-> (IF fits THEN Pow2(n - 1) ELSE 0) + rest.quotient,
           remainder |-> rest.remainder]

RECURSIVE LongDivision(_, _, _)
(* the next n limbs of the quotient, highest limb computed first *)
LongDivision(r, d, n) ==
  IF n = 0 THEN [quotient |-> <<>>, remainder |-> r]
  ELSE LET high == LimbDivision(r, d, LimbBits)
           rest == LongDivision(high.remainder, d, n - 1)
       IN [quotient |-> rest.quotient \o <<high.quotient>>,
           remainder |-> rest.remainder]

(* x / y, for y > 0: both mantissas have 53 bits, so the quotient of the *)
(* mantissas has at most one bit before the point                        *)
DoubleDiv(x, y) ==
  IF x.m = <<>> THEN DoubleZero
  ELSE LET fits == ~BigLess(x.m, y.m)
           res == LongDivision(IF fits THEN BigSub(x.m, y.m) ELSE x.m, y.m,
                               QuotientLimbs)
           q == Trim(res.quotient \o <<IF fits THEN 1 ELSE 0>>)
       IN RoundNearestEven(q, x.e - y.e - QuotientLimbs * LimbBits,
                           res.remainder # <<>>)

(* x * k, for a natural 0 < k <= LimbBase *)
DoubleTimes(x, k) == RoundNearestEven(MulSmall(x.m, k), x.e, FALSE)

(* the binary64 value of a natural below LimbBase^2 *)
DoubleOf(n) == RoundNearestEven(BigOf(n), 0, FALSE)

(* the binary64 value of the decimal literal num/den, e.g. 0.4 = 4/10: *)
(* the nearest binary64 number, as the parser produces it              *)
DoubleLiteral(num, den) == DoubleDiv(DoubleOf(num), DoubleOf(den))

(* Math.round(x) for x >= 0: floor(x + 1/2), computed exactly *)
MathRoundDouble(x) ==
  IF x.m = <<>> THEN 0
  ELSE IF x.e >= 0 THEN BigToInt(ShiftLeft(x.m, x.e))
  ELSE BigToInt(ShiftRight(BigAdd(x.m, ShiftLeft(<<1>>, (0 - x.e) - 1)), 0 - x.e))

(* ---- calculateVARKScores on binary64 weights ---------------------------- *)

MaxAnswers == 4

(* line 63: the default 1.0 *)
DefaultWeightDouble == DoubleOf(DefaultWeight)

(* weights with a fraction: 0.1 and 0.4 *)
FractionalWeights == {DoubleLiteral(1, 10), DoubleLiteral(4, 10)}

(* two styles are enough for a share to sit at a half percent *)
OrderStyles == {StyleOrder[1], StyleOrder[2]}

(* a response of the sequence; domainWeight may be absent *)
FractionalKinds ==
  {[selectedStyle |-> t] : t \in OrderStyles}
  \cup {[selectedStyle |-> t, domainWeight |-> w] : t \in OrderStyles, w \in FractionalWeights}

(* lines 54-59 *)
InitialRawScoresDouble == [s \in Styles |-> DoubleZero]

(* line 63: const { selectedStyle, domainWeight = 1.0 } = response *)
DomainWeightDoubleOf(response) ==
  IF "domainWeight" \in DOMAIN response THEN response.domainWeight ELSE DefaultWeightDouble

(* lines 62-67, the body of the forEach callback *)
AddResponseDouble(raw, response) ==
  IF IsCounted(response)
  THEN [raw EXCEPT ![response.selectedStyle] = DoubleAdd(@, DomainWeightDoubleOf(response))]
  ELSE raw

RECURSIVE ForEachResponseDouble(_, _, _)
(* lines 62-67: fold of AddResponseDouble over responses[i..] *)
ForEachResponseDouble(raw, rs, i) ==
  IF i > Len(rs) THEN raw
  ELSE ForEachResponseDouble(AddResponseDouble(raw, rs[i]), rs, i + 1)

RECURSIVE ReduceSumDouble(_, _, _)
(* line 70: Object.values(rawScores).reduce((sum, score) => sum + score, 0) *)
ReduceSumDouble(obj, acc, i) ==
  IF i > Len(StyleOrder) THEN acc
  ELSE ReduceSumDouble(obj, DoubleAdd(acc, obj[StyleOrder[i]]), i + 1)

(* line 76: Math.round((rawScores[style] / totalScore) * 100) *)
RoundedPercentagesDouble(raw, total) ==
  [s \in Styles |-> MathRoundDouble(DoubleTimes(DoubleDiv(raw[s], total), 100))]

(* lines 52-96, the whole function; the percentages are whole numbers up *)
(* to 100, on which lines 80-87 compute exactly                          *)
CalculateVARKScoresDouble(rs) ==
  LET raw == ForEachResponseDouble(InitialRawScoresDouble, rs, 1)
      total == ReduceSumDouble(raw, DoubleZero, 1)
  IN IF total.m # <<>>
     THEN EnsureSum100(RoundedPercentagesDouble(raw, total))
     ELSE EqualDistribution

(* a caller collects a response, as part_003 lines 42-47 do, until it *)
(* hands the sequence to the scorer                                    *)
OrderAnswer(response) ==
  /\ orderReturned.isNull
  /\ Len(orderResponses) < MaxAnswers
  /\ orderResponses' = Append(orderResponses, response)
  /\ UNCHANGED <<orderReturned, notOrderVars>>

(* the same responses in another order: two neighbours change places *)
OrderSwap(i) ==
  /\ orderResponses' = [orderResponses EXCEPT ![i] = orderResponses[i + 1],
                                              ![i + 1] = orderResponses[i]]
  /\ UNCHANGED <<orderReturned, notOrderVars>>

(* calculateVARKScores(responses) returns *)
OrderScore ==
  /\ orderReturned' = Some(CalculateVARKScoresDouble(orderResponses))
  /\ UNCHANGED <<orderResponses, notOrderVars>>

NextOrder ==
  \/ \E response \in FractionalKinds : OrderAnswer(response)
  \/ \E i \in 1..(Len(orderResponses) - 1) : OrderSwap(i)
  \/ OrderScore

SpecOrder == InitServices /\ [][NextOrder]_vars

NextInterp ==
  \/ Interpret
  \/ InterpretAgain
  \/ LoadProfile
  \/ RenderDashboard
  \/ GetMyAssignedMaterials

SpecInterp == InitInterp /\ [][NextInterp]_vars

(* ---- properties of calculateVARKScores (checked under Spec) ------------- *)

Returned == pc = "done"

Recognized(response) == response.selectedStyle \in Styles

HasZeroWeight(response) ==
  "domainWeight" \in DOMAIN response /\ response.domainWeight = 0

(* position of a style in the fixed order visual, auditory, reading_writing, kinesthetic *)
Precedence(style) == CHOOSE i \in 1..Len(StyleOrder) : StyleOrder[i] = style

Highest(p) == {s \in Styles : \A t \in Styles : p[s] >= p[t]}

FirstHighest(p) == CHOOSE s \in Highest(p) : \A t \in Highest(p) : Precedence(s) <= Precedence(t)

LastHighest(p) == CHOOSE s \in Highest(p) : \A t \in Highest(p) : Precedence(s) >= Precedence(t)

Total4(p) == p["visual"] + p["auditory"] + p["reading_writing"] + p["kinesthetic"]

(* C1: for every non-empty response sequence the returned values are four *)
(* integers in 0..100 that sum to exactly 100.                            *)
C1_PercentagesSumTo100 ==
  (Returned /\ Len(responses) > 0) =>
    /\ DOMAIN scores = Styles
    /\ \A s \in Styles : scores[s] \in 0..100
    /\ Total4(scores) = 100

(* C1 witness: a non-empty sequence whose rounded values did not sum to 100 *)
(* has been scored.                                                         *)
C1_Witness ==
  Returned /\ Len(responses) > 0 /\ branch = "normalize" /\ sum # 100

(* the total accumulated weight is 0: every response is unrecognized or of weight 0 *)
NothingCounted ==
  \A i \in 1..Len(responses) : ~Recognized(responses[i]) \/ HasZeroWeight(responses[i])

(* C2: when the total accumulated weight is 0 the result is 25/25/25/25 and *)
(* neither the rounding nor the drift correction runs.                      *)
C2_ZeroTotalGivesEqualShares ==
  (Returned /\ NothingCounted) =>
    /\ scores = [s \in Styles |-> 25]
    /\ branch = "default"
    /\ ~adjusted

(* C2 witness: a call returned for a non-empty sequence that mixes an *)
(* unrecognized tag with a zero-weight response.                      *)
C2_Witness ==
  /\ Returned
  /\ NothingCounted
  /\ \E i \in 1..Len(responses) : ~Recognized(responses[i])
  /\ \E i \in 1..Len(responses) : Recognized(responses[i]) /\ HasZeroWeight(responses[i])

(* C3 as stated: the whole drift goes to the highest rounded percentage, the *)
(* FIRST of the tied styles in the order visual, auditory, reading_writing,  *)
(* kinesthetic; the other three keep their rounded values.                   *)
C3_DriftToFirstHighest ==
  (Returned /\ branch = "normalize" /\ sum # 100) =>
    scores = [roundedScores EXCEPT ![FirstHighest(roundedScores)] = @ + (100 - sum)]

(* C3 amended: the whole drift goes to the highest rounded percentage, the *)
(* LAST of the tied styles in that order; the other three keep their       *)
(* rounded values.                                                         *)
C3_DriftToLastHighest ==
  (Returned /\ branch = "normalize" /\ sum # 100) =>
    /\ adjusted
    /\ dominantStyle = LastHighest(roundedScores)
    /\ scores = [roundedScores EXCEPT ![LastHighest(roundedScores)] = @ + (100 - sum)]

(* C3 witness: a correction was applied while two or more styles tied for *)
(* the highest rounded percentage.                                        *)
C3_Witness ==
  Returned /\ adjusted /\ Cardinality(Highest(roundedScores)) >= 2

IsHalfUp(n, num, den) ==
  /\ (2 * n - 1) * den <= 2 * num
  /\ 2 * num < (2 * n + 1) * den

C6_SingleResponseTakesAll ==
  (/\ Returned
   /\ Len(responses) = 1
   /\ Recognized(responses[1])
   /\ ~HasZeroWeight(responses[1])) =>
    /\ scores = [s \in Styles |-> IF s = responses[1].selectedStyle THEN 100 ELSE 0]
    /\ ~adjusted

(* C6 witness: a single response without a stated weight has been scored. *)
C6_Witness ==
  /\ Returned
  /\ Len(responses) = 1
  /\ Recognized(responses[1])
  /\ "domainWeight" \notin DOMAIN responses[1]

(* C7: the result equals the result for the sequence with every *)
(* unrecognized-tag response removed.                           *)
C7_UnrecognizedTagsSkipped ==
  Returned => scores = CalculateVARKScores(SelectSeq(responses, Recognized))

(* C7 witness: a scored sequence holds an unrecognized tag next to counted *)
(* responses.                                                              *)
C7_Witness ==
  /\ Returned
  /\ branch = "normalize"
  /\ \E i \in 1..Len(responses) : ~Recognized(responses[i])

NotZeroWeight(response) == ~HasZeroWeight(response)

(* C8: the result equals the result for the sequence with every zero-weight *)
(* response removed.                                                        *)
C8_ZeroWeightContributesNothing ==
  Returned => scores = CalculateVARKScores(SelectSeq(responses, NotZeroWeight))

(* C8 witness: a scored sequence holds a zero-weight response of a *)
(* recognized style next to counted responses.                     *)
C8_Witness ==
  /\ Returned
  /\ branch = "normalize"
  /\ \E i \in 1..Len(responses) : Recognized(responses[i]) /\ HasZeroWeight(responses[i])

C10_SortedDescendingDominantFirst ==
  interpreted =>
    LET all == interpretation.allScores IN
    /\ Len(all) = 4
    /\ {all[i].style : i \in 1..4} = Styles
    /\ \A i \in 1..4 : all[i].percentage = scores[all[i].style]
    /\ \A i \in 1..4 : \A j \in 1..4 :
         i < j => \/ all[i].percentage > all[j].percentage
                  \/ /\ all[i].percentage = all[j].percentage
                     /\ Precedence(all[i].style) < Precedence(all[j].style)
    /\ interpretation.dominant.style = all[1].style
    /\ interpretation.dominant.percentage = all[1].percentage
    /\ (scores = [s \in Styles |-> 25] => interpretation.dominant.style = "visual")

(* C10 witness: a vector with a tie for the highest percentage that does *)
(* not include visual has been interpreted.                              *)
C10_Witness ==
  /\ interpreted
  /\ Cardinality(Highest(scores)) >= 2
  /\ "visual" \notin Highest(scores)

(* style s ranks before style t: higher percentage, or equal and earlier in *)
(* the order visual, auditory, reading_writing, kinesthetic                 *)
RanksBefore(sc, s, t) ==
  \/ sc[s] > sc[t]
  \/ sc[s] = sc[t] /\ Precedence(s) < Precedence(t)

(* the style at place n (1..4) of the descending order *)
StyleAtRank(sc, n) ==
  CHOOSE s \in Styles : Cardinality({t \in Styles : RanksBefore(sc, t, s)}) = n - 1

(* the styles at or above 25 percent *)
Significant(sc) == {s \in Styles : sc[s] >= 25}

(* C11: secondary is the second entry of the descending order when that *)
(* entry's percentage is at least 25, and null otherwise (70/10/10/10:  *)
(* null; 40/35/15/10: auditory).                                        *)
C11_SecondaryIffSecondAtLeast25 ==
  interpreted =>
    LET second == StyleAtRank(scores, 2) IN
    /\ scores[second] >= 25 =>
         /\ ~interpretation.secondary.isNull
         /\ interpretation.secondary.value.style = second
         /\ interpretation.secondary.value.percentage = scores[second]
    /\ scores[second] < 25 => interpretation.secondary.isNull
    /\ (scores = [s \in Styles |-> IF s = "visual" THEN 70 ELSE 10]
          => interpretation.secondary.isNull)
    /\ (scores = [s \in Styles |-> CASE s = "visual" -> 40 [] s = "auditory" -> 35
                                     [] s = "reading_writing" -> 15 [] OTHER -> 10]
          => /\ ~interpretation.secondary.isNull
             /\ interpretation.secondary.value.style = "auditory")

(* C11 witness: a vector whose second entry stands exactly at 25 has been *)
(* interpreted and has a secondary style.                                 *)
C11_Witness ==
  /\ interpreted
  /\ scores[StyleAtRank(scores, 2)] = 25
  /\ scores[StyleAtRank(scores, 1)] > 25
  /\ ~interpretation.secondary.isNull

SignificantEntries(sc) ==
  [i \in 1..Cardinality(Significant(sc)) |->
     [style |-> StyleAtRank(sc, i),
      name |-> styleNames[StyleAtRank(sc, i)],
      percentage |-> sc[StyleAtRank(sc, i)]]]

(* C13 as stated: multimodalStyles is the list of all entries at or above *)
(* 25 in descending order, also when only one style qualifies, and        *)
(* isMultimodal says whether that list has more than one entry.           *)
C13_MultimodalStylesAlwaysListed ==
  interpreted =>
    /\ ~interpretation.multimodalStyles.isNull
    /\ interpretation.multimodalStyles.value = SignificantEntries(scores)
    /\ interpretation.isMultimodal <=> Len(interpretation.multimodalStyles.value) > 1

(* C13 amended: multimodalStyles is the list of all entries at or above 25 *)
(* in descending order when two or more styles qualify and null when       *)
(* fewer do; isMultimodal says whether two or more qualify.                *)
C13_MultimodalStylesListedWhenMultimodal ==
  interpreted =>
    /\ Cardinality(Significant(scores)) >= 2 =>
         /\ ~interpretation.multimodalStyles.isNull
         /\ interpretation.multimodalStyles.value = SignificantEntries(scores)
    /\ Cardinality(Significant(scores)) < 2 => interpretation.multimodalStyles.isNull
    /\ interpretation.isMultimodal <=> Cardinality(Significant(scores)) >= 2

(* C13 witness: a vector with exactly one style at or above 25 has been *)
(* interpreted and its multimodalStyles is null.                        *)
C13_Witness ==
  /\ interpreted
  /\ Cardinality(Significant(scores)) = 1
  /\ interpretation.multimodalStyles.isNull

StylesListed(list) == {list[i].style : i \in 1..Len(list)}

(* C23: secondary is non-null exactly when isMultimodal is true, and when *)
(* isMultimodal is true both dominant and secondary are among             *)
(* multimodalStyles.                                                      *)
C23_SecondaryIffMultimodal ==
  interpreted =>
    /\ ~interpretation.secondary.isNull <=> interpretation.isMultimodal
    /\ interpretation.isMultimodal =>
         /\ ~interpretation.multimodalStyles.isNull
         /\ interpretation.dominant.style \in StylesListed(interpretation.multimodalStyles.value)
         /\ interpretation.secondary.value.style \in StylesListed(interpretation.multimodalStyles.value)
         /\ interpretation.dominant.style # interpretation.secondary.value.style

(* C23 witness: three styles at or above 25, so that the list holds more *)
(* than dominant and secondary.                                          *)
C23_Witness ==
  /\ interpreted
  /\ interpretation.isMultimodal
  /\ ~interpretation.secondary.isNull
  /\ Len(interpretation.multimodalStyles.value) = 3

(* C14: the dominant style recomputed by the student dashboard and by *)
(* getMyAssignedMaterials is interpretVARKResults(scores).dominant,   *)
(* ties included.                                                     *)
C14_DownstreamDominantAgrees ==
  interpreted =>
    /\ ~dashDominant.isNull =>
         dashDominant.value.style = interpretation.dominant.style
    /\ ~assigned.isNull =>
         \A i \in 1..Len(assigned.value) :
           assigned.value[i].preferred_style = interpretation.dominant.style

NamesJoinedByAnd(sc) ==
  [i \in 1..(2 * Cardinality(Significant(sc)) - 1) |->
     IF i % 2 = 1 THEN styleNames[StyleAtRank(sc, (i + 1) \div 2)] ELSE " and "]

(* C17: the summary names, when isMultimodal, exactly the display names of *)
(* the styles at or above 25 in descending order joined by " and ", and    *)
(* otherwise the dominant style's display name followed by its description. *)
C17_SummaryNamesStyles ==
  interpreted =>
    /\ interpretation.isMultimodal =>
         interpretation.interpretation =
           <<"You're a multimodal learner with strengths in ">>
           \o NamesJoinedByAnd(scores)
           \o <<". This means you can adapt your learning approach based on the material and situation.">>
    /\ ~interpretation.isMultimodal =>
         interpretation.interpretation =
           <<"You're primarily a ", styleNames[StyleAtRank(scores, 1)], " learner. ",
             styleDescriptions[StyleAtRank(scores, 1)]>>

(* C17 witness: a summary naming three styles, not in the fixed order, has *)
(* been built.                                                             *)
C17_Witness ==
  /\ interpreted
  /\ Cardinality(Significant(scores)) = 3
  /\ StyleAtRank(scores, 1) = "kinesthetic"

(* ---- interleaved calls (checked under SpecSessions) -------------------- *)

(* C16: whatever the interleaving of the two sessions' steps, each call *)
(* returns what it returns when run alone on its own input.             *)
C16_InterleavedCallsDoNotInterfere ==
  \A k \in Sessions :
    /\ invPc[k] \in {"scored", "done"} => invScores[k] = CalculateVARKScores(invInput[k])
    /\ invPc[k] = "done" =>
         invInterp[k] = Some(InterpretVARKResults(CalculateVARKScores(invInput[k])))

(* C16 witness: two calls on inputs with different results have both *)
(* finished after their steps overlapped.                            *)
C16_Witness ==
  /\ \A k \in Sessions : invPc[k] = "done"
  /\ overlapped
  /\ invScores["s1"] # invScores["s2"]
  /\ \A k \in Sessions : Len(invInput[k]) = MaxSessionLen

(* ---- VarkAssessment (checked under SpecAssessment) --------------------- *)

(* the questionnaire in order: question id, domain id and domain weight *)
QuestionnaireOrder ==
  <<[questionId |-> "ip1", domainId |-> "information_processing", domainWeight |-> 1],
    [questionId |-> "ip2", domainId |-> "information_processing", domainWeight |-> 1],
    [questionId |-> "ps1", domainId |-> "problem_solving", domainWeight |-> 2],
    [questionId |-> "ps2", domainId |-> "problem_solving", domainWeight |-> 2]>>

AnswersLastQuestion(c) ==
  /\ c.currentDomainIndex = 1
  /\ c.currentQuestionIndex = 1

(* C18: the scorer is invoked by a handleAnswer call exactly when that call *)
(* answers the last question of the last domain, and its argument holds one *)
(* response per question, in questionnaire order, with the domain's weight. *)
C18_ScorerCalledOnceAllAnswered ==
  ~lastCall.isNull =>
    LET call == lastCall.value IN
    /\ call.scored <=> AnswersLastQuestion(call.at)
    /\ call.scored =>
         /\ Len(call.argument) = Len(QuestionnaireOrder)
         /\ \A i \in 1..Len(call.argument) :
              /\ call.argument[i].questionId = QuestionnaireOrder[i].questionId
              /\ call.argument[i].domainId = QuestionnaireOrder[i].domainId
              /\ call.argument[i].domainWeight = QuestionnaireOrder[i].domainWeight
              /\ call.argument[i].selectedStyle \in Styles
    /\ (showResults <=> ~results.isNull)

(* C18 witness: the last question was answered and the scorer was given *)
(* four answers of four different styles.                               *)
C18_Witness ==
  /\ ~lastCall.isNull
  /\ lastCall.value.scored
  /\ showResults
  /\ {lastCall.value.argument[i].selectedStyle : i \in 1..Len(lastCall.value.argument)} = Styles

RECURSIVE QuestionsOfDomainsBefore(_)
(* the questions of the domains before domain index d (0-based) *)
QuestionsOfDomainsBefore(d) ==
  IF d = 0 THEN 0
  ELSE QuestionsOfDomainsBefore(d - 1) + Len(domains[d].questions)

(* the questions that precede position (d, q) in questionnaire order *)
QuestionsBefore(d, q) == QuestionsOfDomainsBefore(d) + q

(* C25: while the results are not shown, the number of recorded responses *)
(* is the number of questions before (currentDomainIndex,                 *)
(* currentQuestionIndex), also after handleAnswer ran from the handler of *)
(* an earlier render.                                                     *)
C25_ResponsesMatchPosition ==
  ~showResults =>
    Len(vaResponses) = QuestionsBefore(currentDomainIndex, currentQuestionIndex)

(* C25 witness: the handler of the previous render answered once more and *)
(* replaced the answer given last; the second domain is under way.        *)
C25_Witness ==
  /\ ~showResults
  /\ currentDomainIndex = 1
  /\ currentQuestionIndex = 1
  /\ ~lastCall.isNull
  /\ ~prevRender.isNull
  /\ Len(vaResponses) = 3
  /\ lastCall.value.at.responses = SubSeq(vaResponses, 1, 2)
  /\ Len(prevRender.value.responses) = 3
  /\ prevRender.value.responses[3].selectedStyle # vaResponses[3].selectedStyle

(* ---- App (checked under SpecApp and SpecAppFair) ----------------------- *)

(* C19: a handleAssessmentComplete call made with a session sends exactly   *)
(* one update, filtered on the session user's id, that sets the four vark_  *)
(* columns to the four values of the vector it was given and sets           *)
(* assessment_completed_at; a call made without a session sends none.       *)
C19_CompleteWritesScoresOnce ==
  ~lastComplete.isNull =>
    LET call == lastComplete.value
        sent == SubSeq(updatesIssued, call.issuedBefore + 1, Len(updatesIssued))
    IN IF call.session.isNull
       THEN sent = <<>>
       ELSE /\ Len(sent) = 1
            /\ sent[1].id = call.session.value.user.value.id
            /\ DOMAIN sent[1].set = {"vark_visual", "vark_auditory", "vark_reading_writing",
                                     "vark_kinesthetic", "assessment_completed_at"}
            /\ sent[1].set.vark_visual = call.scores.visual
            /\ sent[1].set.vark_auditory = call.scores.auditory
            /\ sent[1].set.vark_reading_writing = call.scores.reading_writing
            /\ sent[1].set.vark_kinesthetic = call.scores.kinesthetic
            /\ ~sent[1].set.assessment_completed_at.isNull

(* C19 witness: a call with a session sent an update of four different *)
(* scores, and the store has taken it.                                  *)
C19_Witness ==
  /\ ~lastComplete.isNull
  /\ ~lastComplete.value.session.isNull
  /\ Len(updatesIssued) = 1
  /\ Cardinality({updatesIssued[1].set[f] : f \in {"vark_visual", "vark_auditory",
                     "vark_reading_writing", "vark_kinesthetic"}}) = 4
  /\ ~dbRow.isNull
  /\ dbRow.value = updatesIssued[1].set

(* C20: from step 'loading' the app always eventually reaches another step, *)
(* whether or not the backend ever answers.                                 *)
C20_LoadingAlwaysEnds == (step = "loading") ~> (step # "loading")

(* ---- toggleReplyLike (checked under SpecLikes) ------------------------- *)

SamePair(a, b) == a.replyId = b.replyId /\ a.user = b.user

(* C21: a call returns true exactly when it created a like row of (reply,  *)
(* user) and false exactly when it removed one; of two calls in a row for  *)
(* one reply by one user the second restores the like state the first      *)
(* found; no (reply, user) ever has more than one like row.                *)
C21_ToggleReturnsWhatItDid ==
  /\ \A replyId \in Replies, u \in LikeUsers :
       Cardinality(LikesOf(likeRows, replyId, u)) <= 1
  /\ ~likeLast.isNull =>
       LET call == likeLast.value IN
       /\ call.value = TRUE <=> (call.after \ call.before # {} /\ call.before \ call.after = {})
       /\ call.value = FALSE <=> (call.before \ call.after # {} /\ call.after \ call.before = {})
  /\ (~likeLast.isNull /\ ~likePrev.isNull /\ SamePair(likeLast.value, likePrev.value)) =>
       /\ (likeLast.value.after = {}) <=> (likePrev.value.before = {})
       /\ likeLast.value.value # likePrev.value.value

(* C21 witness: a like and then an unlike by one user on one reply, while *)
(* another like row is in the table.                                      *)
C21_Witness ==
  /\ ~likeLast.isNull
  /\ ~likePrev.isNull
  /\ SamePair(likeLast.value, likePrev.value)
  /\ likePrev.value.value = TRUE
  /\ likeLast.value.value = FALSE
  /\ likeRows # {}

(* the row holds what an update of handleAssessmentComplete wrote *)
ScoresPersisted ==
  /\ ~dbRow.isNull
  /\ \E i \in 1..Len(updatesIssued) : dbRow.value = updatesIssued[i].set

(* C24: when the profile is reloaded after an update of scorer output has *)
(* been applied, the step becomes 'dashboard'; when an update ends with   *)
(* an error, step, profile and the stored row stay as they are.           *)
C24_PersistedScoresLeadToDashboard ==
  [][/\ (/\ pendingChecks' = pendingChecks - 1
         /\ checkOutcome' = Some("data")
         /\ ScoresPersisted)
        => step' = "dashboard"
     /\ (/\ updatePending' # updatePending
         /\ updatePending' \subseteq updatePending
         /\ mounted' = mounted
         /\ pendingChecks' = pendingChecks)
        => /\ step' = step
           /\ appProfile' = appProfile
           /\ dbRow' = dbRow]_vars

(* C24 witness: scores with three zero shares were written over a new   *)
(* profile, the reload returned the row, and the app is on the dashboard *)
C24_Witness ==
  /\ checkOutcome = Some("data")
  /\ ScoresPersisted
  /\ appProfile = dbRow
  /\ dbRow.value.vark_visual = 0
  /\ dbRow.value.vark_reading_writing = 100
  /\ updatePending = {}
  /\ step = "dashboard"

(* a sign-out button that leaves for '/': the page is loaded anew and the *)
(* client holds no session                                                *)
SignedOutByReload ==
  /\ mounted
  /\ ~mounted'
  /\ libSession' = Null

(* Back to Login: the assessment screen gives way to the auth screen *)
SignedOutInPlace ==
  /\ mounted
  /\ mounted'
  /\ step = "assessment"
  /\ step' = "auth"
  /\ session' = Null
  /\ appProfile' = Null
  /\ libSession' = Null

(* C26: every sign-out action leaves no token under 'supabase.auth.token', *)
(* so that the next mount restores no session.                             *)
C26_SignOutRemovesToken ==
  [][(SignedOutByReload \/ SignedOutInPlace) => localToken' = Null]_vars

(* ---- joinStudyGroup (checked under SpecGroups) -------------------------- *)

(* C27: a study group never has more memberships than its max_members, *)
(* however the joinStudyGroup calls of distinct users interleave.      *)
C27_NeverOverCapacity ==
  ~groupRow.isNull => Cardinality(memberships) <= groupRow.value.max_members

(* ---- quiz questions (checked under SpecQuizzes) ------------------------- *)

(* C28: after any sequence of completed addQuizQuestion, updateQuizQuestion *)
(* and deleteQuizQuestion calls, a quiz's total_points is the sum of the    *)
(* points of the questions that belong to it.                               *)
C28_TotalPointsIsSumOfQuestions ==
  \A z \in Quizzes :
    quizTotalPoints[z] = SumPoints({q \in quizQuestions : q.quiz_id = z})

(* ---- ContentEngine (checked under SpecEngine) --------------------------- *)

(* C29: once no transform request is outstanding, generatedContent is the *)
(* response to the request made for currentStyle, in whatever order the   *)
(* responses arrived; isLoading is false only when none is outstanding.   *)
C29_ContentMatchesCurrentStyle ==
  /\ (outstanding = {} /\ nextRequest > 1) =>
       generatedContent \in {ContentFor(currentStyle), ErrorContent}
  /\ ~isLoading => outstanding = {}


(* ---- updateMaterialCompletion (checked under SpecCompletions) ----------- *)

(* C30: a call for a pair that has a completion record updates that record *)
(* and leaves its started_at as it was; started_at is written only when    *)
(* the record is created.                                                  *)
C30_StartedAtKept ==
  [][\A r \in completions : \A q \in completions' :
       q.id = r.id => q.started_at = r.started_at]_vars


(* ---- calculateVARKScores on binary64 weights (checked under SpecOrder) -- *)

(* C22: the vector calculateVARKScores returns depends only on the       *)
(* per-style totals: once a sequence of responses has been scored, every *)
(* permutation of it is scored to the same vector.                       *)
C22_OrderDoesNotMatter ==
  [][(~orderReturned.isNull /\ ~orderReturned'.isNull)
       => orderReturned'.value = orderReturned.value]_vars

====
